---- MODULE Spec2Model ----
(***************************************************************************)
(* A model of wacli's HTTP RPC server (internal/rpc/server.go): the client *)
(* binding, the sync flag, the six request handlers and the lifecycle      *)
(* (New / Start / Stop).                                                   *)
(*                                                                         *)
(* Go strings are sequences of tokens: " " is a white-space character,     *)
(* "@" and ":" are themselves, and every other token ("5", "g.us", ...) is *)
(* a run of ordinary characters.                                           *)
(***************************************************************************)
EXTENDS Integers, Sequences, FiniteSets, TLC

\* Every collaborator call is recorded as a tuple: the operation, its arguments,
\* and last what it answered (for the Store, the error; none is "" or FALSE).
VARIABLES
    wa,           \* Server.wa: the bound client, an interface value [typ, ptr]
    syncRunning,  \* Server.syncRunning
    chats,        \* Store: the chats table, a sequence of rows
    messages,     \* Store: the messages table, a sequence of rows
    sentMsgs,     \* the texts handed to SendText so far
    req,          \* the request handled last
    waClient,     \* the binding snapshot of the request handled last
    resp,         \* the response written to the request handled last
    calls,        \* the collaborator calls made by the request handled last
    addr,         \* Server.addr
    startTime,    \* Server.startTime
    server,       \* Server.server: the http.Server of the last Start, or NoServer
    nStarts,      \* how many times Start was called: Start k makes http.Server k
    lnState,      \* per http.Server, the listener its Start opened
    inShutdown,   \* per http.Server, whether Shutdown was called on it
    active,       \* per http.Server, the connections with a request in flight
    stopPc,       \* "idle", or "shutdown" while Stop waits inside Shutdown
    stopH,        \* the http.Server of the last Shutdown
    lastOp,       \* the last lifecycle call that returned, and its error
    stopped,      \* Stop was called on the Server while it was started
    cmd,          \* the caller of New: where it is, and what New returned to it
    mu,           \* Server.mu: the goroutine holding it for writing, and the readers
    wpc,          \* per goroutine calling SetWA: where it is in SetWA
    warg,         \* per goroutine calling SetWA: the argument of its call
    rpc,          \* per handler goroutine: where it is in its snapshot of s.wa
    rsnap,        \* per handler goroutine: its local waClient, word by word
    rStable,      \* per handler goroutine: no SetWA call ran during its snapshot
    rExpect,      \* per handler goroutine: the last SetWA argument returned before
    offered,      \* the option value of New and every argument SetWA was called with
    lastReturned, \* the argument of the SetWA call that returned last
    rcalls,       \* per handler goroutine: the client calls of its send, and its answer
    ctx,          \* per handler goroutine: its request's context and the context of its send
    parsed        \* the command line's last call of parseTime: its argument and its results

storeVars == <<chats, messages>>
handlerVars == <<sentMsgs, req, waClient, resp, calls>>
bindVars == <<wa, syncRunning>>
lifeVars == <<addr, startTime, server, nStarts, lnState, inShutdown, active, stopPc, stopH, lastOp, stopped>>
lockVars == <<mu, wpc, warg, rpc, rsnap, rStable, rExpect, offered, lastReturned, rcalls, ctx>>
cliVars == <<parsed>>
vars == <<wa, syncRunning, chats, messages, sentMsgs, req, waClient, resp, calls,
          addr, startTime, server, nStarts, lnState, inShutdown, active, stopPc, stopH,
          lastOp, stopped, cmd,
          mu, wpc, warg, rpc, rsnap, rStable, rExpect, offered, lastReturned, rcalls, ctx,
          parsed>>

----------------------------------------------------------------------------
(* Bounds *)

\* SendText is called at most this many times in a behaviour.
MaxSends == 1

\* Start is called at most this many times in a behaviour.
MaxStarts == 2

\* At most this many connections have a request in flight at a time.
MaxConns == 1

\* The sync task adds rows to a table of the Store while it has fewer than this.
MaxRows == 2

----------------------------------------------------------------------------
(* Strings *)

RECURSIVE TrimLeft(_)
TrimLeft(s) == IF s # <<>> /\ Head(s) = " " THEN TrimLeft(Tail(s)) ELSE s

RECURSIVE TrimRight(_)
TrimRight(s) ==
    IF s # <<>> /\ s[Len(s)] = " " THEN TrimRight(SubSeq(s, 1, Len(s) - 1)) ELSE s

\* strings.TrimSpace
TrimSpace(s) == TrimRight(TrimLeft(s))

\* strings.Contains, for a one-character needle
Contains(s, c) == \E i \in 1..Len(s) : s[i] = c

\* strings.Index, for a one-character needle the string contains
IndexOf(s, c) == CHOOSE i \in 1..Len(s) : s[i] = c /\ \A j \in 1..(i - 1) : s[j] # c

----------------------------------------------------------------------------
(* Identifiers (types.JID) *)

DefaultUserServer == <<"s.whatsapp.net">>
GroupServer == <<"g.us">>
BroadcastServer == <<"broadcast">>
StatusBroadcastUser == <<"status">>

NoJID == [User |-> <<>>, Server |-> <<>>]

\* types.ParseJID: user@server; a device suffix that is not a number is an error,
\* and in this model every ":" opens such a suffix.
ParseJID(t) ==
    LET i == IndexOf(t, "@")
        user == SubSeq(t, 1, i - 1)
        srv == SubSeq(t, i + 1, Len(t))
    IN  IF Contains(user, ":")
        THEN [ok |-> FALSE, jid |-> NoJID]
        ELSE [ok |-> TRUE, jid |-> [User |-> user, Server |-> srv]]

\* wa.ParseUserOrJID: a bare user is a user of the default server.
ParseUserOrJID(s) ==
    LET t == TrimSpace(s)
    IN  IF t = <<>> THEN [ok |-> FALSE, jid |-> NoJID]
        ELSE IF Contains(t, "@") THEN ParseJID(t)
        ELSE [ok |-> TRUE, jid |-> [User |-> t, Server |-> DefaultUserServer]]

\* JID.String
JIDString(j) == IF j.User = <<>> THEN j.Server ELSE j.User \o <<"@">> \o j.Server

\* JID.IsBroadcastList
IsBroadcastList(j) == j.Server = BroadcastServer /\ j.User # StatusBroadcastUser

\* the chat kind of handleSend
ChatKind_GroupOrDM(j) == IF j.Server = GroupServer THEN "group" ELSE "dm"

ChatKind(j) ==
    IF j.Server = GroupServer THEN "group"
    ELSE IF IsBroadcastList(j) THEN "broadcast"
    ELSE "dm"

----------------------------------------------------------------------------
(* Clients and the binding *)

Clients == {"c1", "c2"}
\* the clients the handlers' specification binds
HandlerClients == {"c1"}
NoClient == "nil"

\* The dynamic type of a client: the command's wrapper, or the test's mock.
ClientType(c) == IF c = "c1" THEN "*waWrapper" ELSE IF c = "c2" THEN "*mockWA" ELSE "nil"

\* An interface value is a type word and a data word; nil is both words nil.
Iface(c) == [typ |-> ClientType(c), ptr |-> c]

\* waClient == nil
IsNil(w) == w.typ = "nil"

\* waClient == nil || !waClient.IsConnected(), `conn` being what IsConnected answers
ClientUnavailable_NilOnly(w, conn) == IsNil(w)

ClientUnavailable(w, conn) == IsNil(w) \/ ~conn

----------------------------------------------------------------------------
(* Requests *)

NoStr == <<>>

Request(path, method) ==
    [path |-> path, method |-> method, malformed |-> FALSE,
     to |-> NoStr, chat_jid |-> NoStr, message |-> NoStr,
     query |-> NoStr, limit |-> NoStr, before |-> NoStr, after |-> NoStr]

\* The JSON bodies of /send: sendRequest{To, Message, ChatJID}.
ToVals == { <<>>, <<" ">>, <<" ", "5", " ">>, <<"5", ":", "@", "s.whatsapp.net">> }
ChatJIDVals == { <<>>, <<"7", "@", "g.us">> }
MessageVals == { <<>>, <<" ">>, <<" ", "hi">> }

SendBody(r, to, cj, msg) == [r EXCEPT !.to = to, !.chat_jid = cj, !.message = msg]

SendRequests ==
    { SendBody(Request("/send", "POST"), to, cj, msg) :
        to \in ToVals, cj \in ChatJIDVals, msg \in MessageVals }
    \cup { [Request("/send", "POST") EXCEPT !.malformed = TRUE] }
    \cup { Request("/send", "GET"),
           SendBody(Request("/send", "GET"), <<" ", "5", " ">>, <<>>, <<" ", "hi">>),
           SendBody(Request("/send", "PUT"), <<" ", "5", " ">>, <<>>, <<" ", "hi">>) }

----------------------------------------------------------------------------
(* Responses *)

NoStatus == [sync_running |-> FALSE, wa_connected |-> FALSE, chats_count |-> 0,
             messages_count |-> 0, fts_enabled |-> FALSE]

\* No response: the value of resp before any request, and of a passed check.
NoResp == [code |-> 0, ok |-> FALSE, error |-> <<>>, message_id |-> "",
           pong |-> FALSE, list |-> <<>>, status |-> NoStatus]

\* writeError, and the sendResponse{OK: false, Error: msg} of handleSend
writeError_NoText(code, msg) == [NoResp EXCEPT !.code = code, !.ok = FALSE]

writeError(code, msg) == [NoResp EXCEPT !.code = code, !.ok = FALSE, !.error = msg]

\* sendResponse{OK: true, MessageID: id}
sendOK(id) == [NoResp EXCEPT !.code = 200, !.ok = TRUE, !.message_id = id]

----------------------------------------------------------------------------
(* Store (internal/store): upserts keyed by chat, and by chat and message *)

ChatRow(jid, kind, name, ts) == [JID |-> jid, Kind |-> kind, Name |-> name, LastMessageTS |-> ts]

RECURSIVE UpsertChatRow(_, _)
\* the chats with the row of this chat replaced by `row`, or `row` appended
UpsertChatRow(rows, row) ==
    IF rows = <<>> THEN <<row>>
    ELSE IF Head(rows).JID = row.JID THEN <<row>> \o Tail(rows)
    ELSE <<Head(rows)>> \o UpsertChatRow(Tail(rows), row)

UpsertMessageRow_Append(rows, row) == Append(rows, row)

RECURSIVE UpsertMessageRow(_, _)
\* the messages with the row of this chat and message replaced, or `row` appended
UpsertMessageRow(rows, row) ==
    IF rows = <<>> THEN <<row>>
    ELSE IF Head(rows).ChatJID = row.ChatJID /\ Head(rows).MsgID = row.MsgID
         THEN <<row>> \o Tail(rows)
    ELSE <<Head(rows)>> \o UpsertMessageRow(Tail(rows), row)

\* Store.UpsertChat: on an error the table is unchanged
UpsertChat(rows, row, err) == IF err THEN rows ELSE UpsertChatRow(rows, row)

\* The stored message of UpsertMessageParams: the Store renders the display text.
MessageRow(p) ==
    [ChatJID |-> p.ChatJID, ChatName |-> p.ChatName, MsgID |-> p.MsgID,
     SenderJID |-> p.SenderJID, SenderName |-> p.SenderName, Timestamp |-> p.Timestamp,
     FromMe |-> p.FromMe, Text |-> p.Text, DisplayText |-> p.Text, MediaType |-> <<>>]

\* Store.UpsertMessage: on an error the table is unchanged
UpsertMessage(rows, p, err) == IF err THEN rows ELSE UpsertMessageRow(rows, MessageRow(p))

----------------------------------------------------------------------------
(* POST /send *)

\* to := TrimSpace(req.To); if to == "" { to = TrimSpace(req.ChatJID) }
Recipient_ChatJIDFirst(r) ==
    IF TrimSpace(r.chat_jid) # <<>> THEN TrimSpace(r.chat_jid) ELSE TrimSpace(r.to)

Recipient(r) == IF TrimSpace(r.to) # <<>> THEN TrimSpace(r.to) ELSE TrimSpace(r.chat_jid)

\* The checks of handleSend in the order of the code; NoResp when all pass.
sendChecks_ParamsFirst(r, w, conn) ==
    IF r.method # "POST" THEN writeError(405, <<"method not allowed">>)
    ELSE IF ~r.malformed /\ Recipient(r) = <<>>
        THEN writeError(400, <<"to or chat_jid is required">>)
    ELSE IF ~r.malformed /\ TrimSpace(r.message) = <<>>
        THEN writeError(400, <<"message is required">>)
    ELSE IF ClientUnavailable(w, conn) THEN writeError(503, <<"WhatsApp not connected">>)
    ELSE IF r.malformed THEN writeError(400, <<"invalid JSON: ", "syntax error">>)
    ELSE IF ~ParseUserOrJID(Recipient(r)).ok
        THEN writeError(400, <<"invalid recipient: ", "parse error">>)
    ELSE NoResp

sendChecks_DependencyFirst(r, w, conn) ==
    IF ClientUnavailable(w, conn) THEN writeError(503, <<"WhatsApp not connected">>)
    ELSE IF r.method # "POST" THEN writeError(405, <<"method not allowed">>)
    ELSE IF r.malformed THEN writeError(400, <<"invalid JSON: ", "syntax error">>)
    ELSE IF Recipient(r) = <<>> THEN writeError(400, <<"to or chat_jid is required">>)
    ELSE IF TrimSpace(r.message) = <<>> THEN writeError(400, <<"message is required">>)
    ELSE IF ~ParseUserOrJID(Recipient(r)).ok
        THEN writeError(400, <<"invalid recipient: ", "parse error">>)
    ELSE NoResp

sendChecks_NoTrim(r, w, conn) ==
    IF r.method # "POST" THEN writeError(405, <<"method not allowed">>)
    ELSE IF ClientUnavailable(w, conn) THEN writeError(503, <<"WhatsApp not connected">>)
    ELSE IF r.malformed THEN writeError(400, <<"invalid JSON: ", "syntax error">>)
    ELSE IF Recipient(r) = <<>> THEN writeError(400, <<"to or chat_jid is required">>)
    ELSE IF r.message = <<>> THEN writeError(400, <<"message is required">>)
    ELSE IF ~ParseUserOrJID(Recipient(r)).ok
        THEN writeError(400, <<"invalid recipient: ", "parse error">>)
    ELSE NoResp

sendChecks(r, w, conn) ==
    IF r.method # "POST" THEN writeError(405, <<"method not allowed">>)
    ELSE IF ClientUnavailable(w, conn) THEN writeError(503, <<"WhatsApp not connected">>)
    ELSE IF r.malformed THEN writeError(400, <<"invalid JSON: ", "syntax error">>)
    ELSE IF Recipient(r) = <<>> THEN writeError(400, <<"to or chat_jid is required">>)
    ELSE IF TrimSpace(r.message) = <<>> THEN writeError(400, <<"message is required">>)
    ELSE IF ~ParseUserOrJID(Recipient(r)).ok
        THEN writeError(400, <<"invalid recipient: ", "parse error">>)
    ELSE NoResp

\* The IsConnected call of the dependency check: made on a bound client only.
connCalls(r, w, conn) ==
    IF r.method = "POST" /\ ~IsNil(w) THEN << <<"IsConnected", w.ptr, conn>> >> ELSE <<>>

\* What the collaborators answer to one send.
MsgIDs == {"id1", "id2"}
ChatNames == { <<"Alice">> }
SendErrs == {"", "timeout"}
Times == {1}
NoOutcome ==
    [connected |-> FALSE, sendErr |-> "", msgID |-> "", chatName |-> <<>>, now |-> 0,
     chatErr |-> FALSE, msgErr |-> FALSE]
SendOutcomes ==
    { [NoOutcome EXCEPT !.connected = TRUE, !.sendErr = e] : e \in SendErrs \ {""} }
    \cup [connected : {TRUE}, sendErr : {""}, msgID : MsgIDs, chatName : ChatNames,
          now : Times, chatErr : BOOLEAN, msgErr : BOOLEAN]

\* store.UpsertMessageParams of handleSend
SentMessageRow(toJID, chatName, msgID, now, text) ==
    [ChatJID |-> JIDString(toJID), ChatName |-> chatName, MsgID |-> msgID,
     SenderJID |-> <<>>, SenderName |-> "me", Timestamp |-> now, FromMe |-> TRUE,
     Text |-> text]

\* The response after a successful SendText, whatever the upserts returned.
sendDone_SurfaceUpsertErr(msgID, chatErr, msgErr) ==
    IF chatErr \/ msgErr THEN writeError(500, <<"store failed">>) ELSE sendOK(msgID)

sendDone(msgID, chatErr, msgErr) == sendOK(msgID)

\* The upserts after a successful SendText: the chat, then the message.
sendUpserts_SkipChat(toJID, o, text) ==
    << <<"UpsertMessage", SentMessageRow(toJID, o.chatName, o.msgID, o.now, text), o.msgErr>> >>

sendUpserts(toJID, o, text) ==
    << <<"UpsertChat", ChatRow(JIDString(toJID), ChatKind(toJID), o.chatName, o.now), o.chatErr>>,
       <<"UpsertMessage", SentMessageRow(toJID, o.chatName, o.msgID, o.now, text), o.msgErr>> >>

RECURSIVE ApplyChats(_, _)
\* the chats table after the Store calls `cs`, in order
ApplyChats(rows, cs) ==
    IF cs = <<>> THEN rows
    ELSE ApplyChats(IF Head(cs)[1] = "UpsertChat"
                        THEN UpsertChat(rows, Head(cs)[2], Head(cs)[3]) ELSE rows,
                    Tail(cs))

RECURSIVE ApplyMessages(_, _)
\* the messages table after the Store calls `cs`, in order
ApplyMessages(rows, cs) ==
    IF cs = <<>> THEN rows
    ELSE ApplyMessages(IF Head(cs)[1] = "UpsertMessage"
                           THEN UpsertMessage(rows, Head(cs)[2], Head(cs)[3]) ELSE rows,
                       Tail(cs))

\* msgID, err := waClient.SendText(ctx, toJID, req.Message): called once, with
\* the message as it came, whatever it returns
sendCalls_RetryOnError(w, toJID, r, o) ==
    IF o.sendErr # ""
    THEN << <<"SendText", w.ptr, toJID, r.message, o.msgID, o.sendErr>>,
            <<"SendText", w.ptr, toJID, r.message, o.msgID, o.sendErr>> >>
    ELSE << <<"SendText", w.ptr, toJID, r.message, o.msgID, o.sendErr>> >>

sendCalls(w, toJID, r, o) ==
    << <<"SendText", w.ptr, toJID, r.message, o.msgID, o.sendErr>> >>

\* sendResponse{OK: false, Error: "send failed: " + err.Error()} with status 500
sendFailed_Generic(err) == writeError(500, <<"send failed">>)

sendFailed(err) == writeError(500, <<"send failed: ", err>>)

handleSend(r, o) ==
    LET w == wa
        chk == sendChecks(r, w, o.connected)
        toJID == ParseUserOrJID(Recipient(r)).jid
        send == sendCalls(w, toJID, r, o)
        ups == sendUpserts(toJID, o, r.message)
    IN  /\ r.path = "/send"
        /\ req' = r
        /\ waClient' = w
        /\ UNCHANGED <<bindVars, lifeVars, cmd, lockVars, cliVars>>
        /\ IF chk # NoResp
           THEN /\ resp' = chk
                /\ calls' = connCalls(r, w, o.connected)
                /\ UNCHANGED <<chats, messages, sentMsgs>>
           ELSE /\ Len(sentMsgs) < MaxSends
                /\ sentMsgs' = Append(sentMsgs, r.message)
                /\ IF o.sendErr # ""
                   THEN /\ resp' = sendFailed(o.sendErr)
                        /\ calls' = connCalls(r, w, o.connected) \o send
                        /\ UNCHANGED <<chats, messages>>
                   ELSE /\ resp' = sendDone(o.msgID, o.chatErr, o.msgErr)
                        /\ calls' = connCalls(r, w, o.connected) \o send
                                      \o << <<"ResolveChatName", w.ptr, toJID, o.chatName>> >>
                                      \o ups
                        /\ chats' = ApplyChats(chats, ups)
                        /\ messages' = ApplyMessages(messages, ups)

----------------------------------------------------------------------------
(* Numbers and timestamps in requests and responses *)

\* The decimal numerals of the requests and the integers they denote.
Numerals == { <<"-1", -1>>, <<"0", 0>>, <<"1", 1>>, <<"2", 2>> }

\* strconv.Atoi: an error for the empty string and for what is no numeral
Atoi(s) ==
    IF Len(s) = 1 /\ \E n \in Numerals : n[1] = s[1]
    THEN [ok |-> TRUE, n |-> (CHOOSE n \in Numerals : n[1] = s[1])[2]]
    ELSE [ok |-> FALSE, n |-> 0]

\* The RFC 3339 texts of the requests and responses and the instants they denote.
Timestamps == { <<"2024-01-01T00:00:01Z", 1>>, <<"2024-01-01T00:00:02Z", 2>> }
NoTime == 0

\* time.Parse(time.RFC3339, s)
ParseRFC3339(s) ==
    IF Len(s) = 1 /\ \E t \in Timestamps : t[1] = s[1]
    THEN [ok |-> TRUE, t |-> (CHOOSE t \in Timestamps : t[1] = s[1])[2]]
    ELSE [ok |-> FALSE, t |-> NoTime]

\* t.Format(time.RFC3339)
FormatRFC3339(t) ==
    IF \E x \in Timestamps : x[2] = t
    THEN << (CHOOSE x \in Timestamps : x[2] = t)[1] >>
    ELSE <<"0001-01-01T00:00:00Z">>

\* limit := 50; if l, err := strconv.Atoi(s); err == nil && l > 0 { limit = l }
DefaultLimit == 50
QueryLimit_KeepNonPositive(s) == IF Atoi(s).ok THEN Atoi(s).n ELSE DefaultLimit

QueryLimit(s) == IF Atoi(s).ok /\ Atoi(s).n > 0 THEN Atoi(s).n ELSE DefaultLimit

\* if s != "" { if t, err := time.Parse(...); err == nil { bound = &t } }
QueryTime(s) == IF s # <<>> /\ ParseRFC3339(s).ok THEN ParseRFC3339(s).t ELSE NoTime

----------------------------------------------------------------------------
(* Store (internal/store): the queries *)

RECURSIVE SelectRows(_, _)
\* the rows among `rows` that are in the set `keep`, in the order of `rows`
SelectRows(rows, keep) ==
    IF rows = <<>> THEN <<>>
    ELSE (IF Head(rows) \in keep THEN <<Head(rows)>> ELSE <<>>) \o SelectRows(Tail(rows), keep)

\* the first `limit` rows
Limited(rows, limit) == SubSeq(rows, 1, IF Len(rows) < limit THEN Len(rows) ELSE limit)

Rows(rows) == { rows[i] : i \in 1..Len(rows) }

\* a free-text filter: every word of the query occurs in the text
Matches(text, q) == \A i \in 1..Len(q) : q[i] = " " \/ Contains(text, q[i])

\* Store.ListChats(query, limit)
ListChats(query, limit) ==
    Limited(SelectRows(chats, { c \in Rows(chats) : Matches(c.Name, query) }), limit)

\* Store.ListMessages(ListMessagesParams{ChatJID, Limit, Before, After})
ListMessages(chatJID, limit, before, after) ==
    Limited(SelectRows(messages,
                { m \in Rows(messages) :
                    /\ m.ChatJID = chatJID
                    /\ before # NoTime => m.Timestamp < before
                    /\ after # NoTime => m.Timestamp > after }), limit)

\* Store.SearchMessages(SearchMessagesParams{Query, ChatJID, Limit})
SearchMessages(query, chatJID, limit) ==
    Limited(SelectRows(messages,
                { m \in Rows(messages) :
                    /\ Matches(m.Text, query)
                    /\ chatJID # <<>> => m.ChatJID = chatJID }), limit)

\* Store.CountMessages
CountMessages == Len(messages)

----------------------------------------------------------------------------
(* GET /ping, /status, /chats, /messages and GET or POST /search *)

\* What the Store answers to one reading request.
StoreErrs == {"", "database is locked"}
NoRead == [connected |-> FALSE, listErr |-> "", countErr |-> "", fts |-> FALSE]
ReadOutcomes == [connected : {FALSE}, listErr : StoreErrs, countErr : {""}, fts : {FALSE}]
StatusOutcomes == [connected : BOOLEAN, listErr : StoreErrs, countErr : StoreErrs, fts : BOOLEAN]

Methods == {"GET", "POST", "PUT"}

PingRequests == { Request("/ping", m) : m \in Methods }
StatusRequests == { Request("/status", m) : m \in {"GET", "POST"} }
ChatsRequests ==
    { [Request("/chats", "GET") EXCEPT !.limit = l] : l \in { <<>>, <<"x">>, <<"0">>, <<"1">> } }
    \cup { [Request("/chats", "GET") EXCEPT !.query = <<"Alice">>], Request("/chats", "POST") }
MessagesRequests ==
    { [Request("/messages", "GET") EXCEPT !.chat_jid = <<"5", "@", "s.whatsapp.net">>,
                                          !.limit = x[1], !.before = x[2], !.after = x[3]] :
        x \in { << <<>>, <<>>, <<>> >>, << <<"1">>, <<>>, <<>> >>,
                << <<>>, <<"yesterday">>, <<"2024-01-01T00:00:01Z">> >>,
                << <<>>, <<"2024-01-01T00:00:02Z">>, <<>> >> } }
    \cup { Request("/messages", "GET"), Request("/messages", "POST"),
           [Request("/messages", "GET") EXCEPT !.chat_jid = <<" ">>],
           [Request("/messages", "POST") EXCEPT !.chat_jid = <<"5", "@", "s.whatsapp.net">>] }
SearchRequests ==
    { [Request("/search", m) EXCEPT !.query = x[1], !.chat_jid = x[2], !.limit = x[3]] :
        m \in {"GET", "POST"},
        x \in { << <<>>, <<>>, <<>> >>, << <<" ">>, <<>>, <<>> >>, << <<"hi">>, <<>>, <<>> >>,
                << <<"hi">>, <<"7", "@", "g.us">>, <<"2">> >>, << <<"hi">>, <<>>, <<"-1">> >> } }
    \cup { [Request("/search", "POST") EXCEPT !.malformed = TRUE],
           [Request("/search", "POST") EXCEPT !.query = <<"hi">>, !.limit = <<"x">>],
           Request("/search", "PUT"),
           [Request("/search", "PUT") EXCEPT !.query = <<"hi">>] }

\* chatJSON of a chat row
chatJSON(c) ==
    [jid |-> c.JID, kind |-> c.Kind, name |-> c.Name,
     last_message_ts |-> FormatRFC3339(c.LastMessageTS)]

\* messageJSON of a message row
messageJSON_SenderAsChat(m) ==
    [chat_jid |-> m.SenderJID, chat_name |-> m.ChatName, msg_id |-> m.MsgID,
     sender_jid |-> m.SenderJID, timestamp |-> FormatRFC3339(m.Timestamp),
     from_me |-> m.FromMe, text |-> m.Text, display_text |-> m.DisplayText,
     media_type |-> m.MediaType]

messageJSON(m) ==
    [chat_jid |-> m.ChatJID, chat_name |-> m.ChatName, msg_id |-> m.MsgID,
     sender_jid |-> m.SenderJID, timestamp |-> FormatRFC3339(m.Timestamp),
     from_me |-> m.FromMe, text |-> m.Text, display_text |-> m.DisplayText,
     media_type |-> m.MediaType]

\* writeOK of a list payload
listOK(out) == [NoResp EXCEPT !.code = 200, !.ok = TRUE, !.list = out]

\* writeError(w, http.StatusInternalServerError, err.Error()) of the list handlers
storeFailed_EmptyList(err) == listOK(<<>>)

storeFailed(err) == writeError(500, <<err>>)

\* handlePing looks at nothing of the request or the Server.
handlePing_GetOnly(r) ==
    /\ r.path = "/ping"
    /\ req' = r
    /\ waClient' = Iface(NoClient)
    /\ resp' = IF r.method # "GET" THEN writeError(405, <<"method not allowed">>)
               ELSE [NoResp EXCEPT !.code = 200, !.ok = TRUE, !.pong = TRUE]
    /\ calls' = <<>>
    /\ UNCHANGED <<wa, syncRunning, chats, messages, sentMsgs, lifeVars, cmd, lockVars, cliVars>>

handlePing_Unbinds(r) ==
    /\ r.path = "/ping"
    /\ req' = r
    /\ waClient' = Iface(NoClient)
    /\ resp' = [NoResp EXCEPT !.code = 200, !.ok = TRUE, !.pong = TRUE]
    /\ calls' = <<>>
    /\ wa' = Iface(NoClient)
    /\ UNCHANGED <<syncRunning, chats, messages, sentMsgs, lifeVars, cmd, lockVars, cliVars>>

handlePing(r) ==
    /\ r.path = "/ping"
    /\ req' = r
    /\ waClient' = Iface(NoClient)
    /\ resp' = [NoResp EXCEPT !.code = 200, !.ok = TRUE, !.pong = TRUE]
    /\ calls' = <<>>
    /\ UNCHANGED <<wa, syncRunning, chats, messages, sentMsgs, lifeVars, cmd, lockVars, cliVars>>

\* The checks of handleStatus; NoResp when all pass.
statusChecks(r) ==
    IF r.method # "GET" THEN writeError(405, <<"method not allowed">>) ELSE NoResp

\* s.syncRunning.Load() of handleStatus
SyncRunningLoad_AtStart == FALSE

SyncRunningLoad == syncRunning

\* waConnected := false; if wa != nil { waConnected = wa.IsConnected() }
statusConnected_BoundIsConnected(w, conn) == ~IsNil(w)

statusConnected(w, conn) == IF ~IsNil(w) THEN conn ELSE FALSE

\* writeOK(w, resp): the errors of the Store's answers are not looked at again
statusDone_FailOnStoreErr(st, listErr, countErr) ==
    IF listErr # "" THEN writeError(500, <<listErr>>)
    ELSE IF countErr # "" THEN writeError(500, <<countErr>>)
    ELSE [NoResp EXCEPT !.code = 200, !.ok = TRUE, !.status = st]

statusDone(st, listErr, countErr) == [NoResp EXCEPT !.code = 200, !.ok = TRUE, !.status = st]

handleStatus(r, o) ==
    LET w == wa
        chk == statusChecks(r)
        waConnected == statusConnected(w, o.connected)
        chatsCount == IF o.listErr = "" THEN Len(ListChats(<<>>, 100000)) ELSE 0
        msgsCount == IF o.countErr = "" THEN CountMessages ELSE 0
    IN  /\ r.path = "/status"
        /\ req' = r
        /\ UNCHANGED <<wa, syncRunning, chats, messages, sentMsgs, lifeVars, cmd, lockVars, cliVars>>
        /\ IF chk # NoResp
           THEN /\ resp' = chk
                /\ waClient' = Iface(NoClient)
                /\ calls' = <<>>
           ELSE /\ waClient' = w
                /\ calls' = (IF ~IsNil(w) THEN << <<"IsConnected", w.ptr, o.connected>> >> ELSE <<>>)
                            \o << <<"ListChats", <<>>, 100000, o.listErr>>,
                                  <<"CountMessages", o.countErr>>, <<"HasFTS", o.fts>> >>
                /\ resp' = statusDone([sync_running |-> SyncRunningLoad,
                                        wa_connected |-> waConnected,
                                        chats_count |-> chatsCount,
                                        messages_count |-> msgsCount,
                                        fts_enabled |-> o.fts], o.listErr, o.countErr)

\* The checks of handleChats; NoResp when all pass.
chatsChecks(r) ==
    IF r.method # "GET" THEN writeError(405, <<"method not allowed">>) ELSE NoResp

handleChats(r, o) ==
    LET chk == chatsChecks(r)
        limit == QueryLimit(r.limit)
        rows == ListChats(r.query, limit)
    IN  /\ r.path = "/chats"
        /\ req' = r
        /\ waClient' = Iface(NoClient)
        /\ UNCHANGED <<wa, syncRunning, chats, messages, sentMsgs, lifeVars, cmd, lockVars, cliVars>>
        /\ IF chk # NoResp
           THEN resp' = chk /\ calls' = <<>>
           ELSE /\ calls' = << <<"ListChats", r.query, limit, o.listErr>> >>
                /\ resp' = IF o.listErr # "" THEN storeFailed(o.listErr)
                           ELSE listOK([i \in 1..Len(rows) |-> chatJSON(rows[i])])

\* The checks of handleMessages; NoResp when all pass.
messagesChecks_AnyChat(r) ==
    IF r.method # "GET" THEN writeError(405, <<"method not allowed">>) ELSE NoResp

messagesChecks_StrictBounds(r) ==
    IF r.method # "GET" THEN writeError(405, <<"method not allowed">>)
    ELSE IF r.chat_jid = <<>> THEN writeError(400, <<"chat_jid is required">>)
    ELSE IF \E b \in {r.before, r.after} : b # <<>> /\ ~ParseRFC3339(b).ok
        THEN writeError(400, <<"invalid timestamp">>)
    ELSE NoResp

messagesChecks(r) ==
    IF r.method # "GET" THEN writeError(405, <<"method not allowed">>)
    ELSE IF r.chat_jid = <<>> THEN writeError(400, <<"chat_jid is required">>)
    ELSE NoResp

handleMessages(r, o) ==
    LET chk == messagesChecks(r)
        limit == QueryLimit(r.limit)
        before == QueryTime(r.before)
        after == QueryTime(r.after)
        rows == ListMessages(r.chat_jid, limit, before, after)
    IN  /\ r.path = "/messages"
        /\ req' = r
        /\ waClient' = Iface(NoClient)
        /\ UNCHANGED <<wa, syncRunning, chats, messages, sentMsgs, lifeVars, cmd, lockVars, cliVars>>
        /\ IF chk # NoResp
           THEN resp' = chk /\ calls' = <<>>
           ELSE /\ calls' = << <<"ListMessages", r.chat_jid, limit, before, after, o.listErr>> >>
                /\ resp' = IF o.listErr # "" THEN storeFailed(o.listErr)
                           ELSE listOK([i \in 1..Len(rows) |-> messageJSON(rows[i])])

\* json.Decode into searchRequest fails on a malformed body and on a limit
\* that is no number; an absent limit is 0.
searchBodyLimit(r) == IF r.limit = <<>> THEN [ok |-> TRUE, n |-> 0] ELSE Atoi(r.limit)
searchDecodeFails(r) == r.method = "POST" /\ (r.malformed \/ ~searchBodyLimit(r).ok)

\* req.Limit before the default is applied: 0 when the GET parameter does not parse
searchRawLimit(r) ==
    IF r.method = "GET" THEN (IF Atoi(r.limit).ok THEN Atoi(r.limit).n ELSE 0)
    ELSE searchBodyLimit(r).n

\* if req.Limit <= 0 { req.Limit = 50 }
searchLimit(r) == IF searchRawLimit(r) <= 0 THEN DefaultLimit ELSE searchRawLimit(r)

\* The checks of handleSearch in the order of the code; NoResp when all pass.
searchChecks_NoTrim(r) ==
    IF r.method # "POST" /\ r.method # "GET" THEN writeError(405, <<"method not allowed">>)
    ELSE IF searchDecodeFails(r) THEN writeError(400, <<"invalid JSON: ", "syntax error">>)
    ELSE IF r.query = <<>> THEN writeError(400, <<"query is required">>)
    ELSE NoResp

searchChecks(r) ==
    IF r.method # "POST" /\ r.method # "GET" THEN writeError(405, <<"method not allowed">>)
    ELSE IF searchDecodeFails(r) THEN writeError(400, <<"invalid JSON: ", "syntax error">>)
    ELSE IF TrimSpace(r.query) = <<>> THEN writeError(400, <<"query is required">>)
    ELSE NoResp

handleSearch(r, o) ==
    LET chk == searchChecks(r)
        limit == searchLimit(r)
        rows == SearchMessages(r.query, r.chat_jid, limit)
    IN  /\ r.path = "/search"
        /\ req' = r
        /\ waClient' = Iface(NoClient)
        /\ UNCHANGED <<wa, syncRunning, chats, messages, sentMsgs, lifeVars, cmd, lockVars, cliVars>>
        /\ IF chk # NoResp
           THEN resp' = chk /\ calls' = <<>>
           ELSE /\ calls' = << <<"SearchMessages", r.query, r.chat_jid, limit, o.listErr>> >>
                /\ resp' = IF o.listErr # "" THEN storeFailed(o.listErr)
                           ELSE listOK([i \in 1..Len(rows) |-> messageJSON(rows[i])])

----------------------------------------------------------------------------
(* The binding, the flag and the environment *)

\* Server.SetWA
SetWA(c) ==
    /\ wa' = Iface(c)
    /\ UNCHANGED <<syncRunning, storeVars, handlerVars, lifeVars, cmd, lockVars, cliVars>>

\* Server.SetSyncRunning
SetSyncRunning_ClearsBinding(b) ==
    /\ syncRunning' = b
    /\ wa' = IF b THEN wa ELSE Iface(NoClient)
    /\ UNCHANGED <<storeVars, handlerVars, lifeVars, cmd, lockVars, cliVars>>

SetSyncRunning(b) ==
    /\ syncRunning' = b
    /\ UNCHANGED <<wa, storeVars, handlerVars, lifeVars, cmd, lockVars, cliVars>>

----------------------------------------------------------------------------
(* Lifecycle: New, Start, Stop, and net/http's Serve and Shutdown *)

NoServer == 0

\* The goroutines that call SetWA, and the handler goroutines that snapshot s.wa.
Writers == {"w1", "w2"}
Readers == {"r1"}
Handles == 1..MaxStarts

DefaultAddr == "localhost:5555"
\* Options.Addr: empty, a fixed port, or port 0 (any free port)
AddrOptions == {"", "localhost:0"}

\* if opts.Addr == "" { opts.Addr = "localhost:5555" }
NewAddr_Keep(a) == a

NewAddr(a) == IF a = "" THEN DefaultAddr ELSE a

\* A caller that holds the Server New returned to it, and is no command.
\* The contexts of one request: r.Context() (`req`: "" or its error once the
\* caller is gone), and the context handleSend derives for its client calls
\* (`made`, `err` as ctx.Err(), `released` once its cancel function was called).
NoCtx == [req |-> "", at |-> "", made |-> FALSE, err |-> "", released |-> FALSE]

\* No call of parseTime yet.
NoParse == [called |-> FALSE, input |-> <<>>, t |-> [unix |-> 0, msec |-> 0, loc |-> "UTC"], err |-> ""]

NoCmd == [kind |-> "none", pc |-> "built", rpcServer |-> "srv", err |-> "",
          deferred |-> FALSE, stops |-> 0]

\* New(Options{Addr, DB, WA}): the state after construction
InitServer(a, c) ==
    /\ cmd = NoCmd
    /\ addr = NewAddr(a)
    /\ startTime \in Times
    /\ wa = Iface(c)
    /\ syncRunning = FALSE
    /\ server = NoServer
    /\ nStarts = 0
    /\ lnState = [h \in Handles |-> "none"]
    /\ inShutdown = [h \in Handles |-> FALSE]
    /\ active = [h \in Handles |-> 0]
    /\ stopPc = "idle"
    /\ stopH = NoServer
    /\ lastOp = [op |-> "New", err |-> ""]
    /\ stopped = FALSE
    /\ chats = <<>>
    /\ messages = <<>>
    /\ sentMsgs = <<>>
    /\ req = Request("", "")
    /\ waClient = Iface(NoClient)
    /\ resp = NoResp
    /\ calls = <<>>
    /\ mu = [writer |-> "none", readers |-> {}]
    /\ wpc = [w \in Writers |-> "idle"]
    /\ warg = [w \in Writers |-> NoClient]
    /\ rpc = [r \in Readers |-> "idle"]
    /\ rsnap = [r \in Readers |-> Iface(NoClient)]
    /\ rcalls = [r \in Readers |-> <<>>]
    /\ ctx = [r \in Readers |-> NoCtx]
    /\ parsed = NoParse

\* The record of the SetWA calls, kept where goroutines run SetWA step by step:
\* it starts with the option value of New.
History(c) ==
    /\ rStable = [r \in Readers |-> TRUE]
    /\ rExpect = [r \in Readers |-> c]
    /\ offered = {c}
    /\ lastReturned = c

\* Where SetWA is one step, no record of its calls is kept.
NoHistory ==
    /\ rStable = [r \in Readers |-> TRUE]
    /\ rExpect = [r \in Readers |-> NoClient]
    /\ offered = {}
    /\ lastReturned = NoClient

Init == \E c \in HandlerClients \cup {NoClient} : InitServer("", c) /\ NoHistory

\* A listener is open from net.Listen until it is closed.
Open(h) == lnState[h] \in {"bound", "serving"}

\* net.Listen("tcp", s.addr) fails when a listener of this Server still holds
\* the fixed port; it may fail for reasons outside the program as well.
MustFail == addr # "localhost:0" /\ \E h \in Handles : Open(h)

\* s.server = &http.Server{...}: assigned before net.Listen is tried
StartHandle(h, fail) == h

\* Server.Start, with `fail`: whether net.Listen returns an error
Start(fail) ==
    LET h == nStarts + 1
    IN  /\ stopPc = "idle"
        /\ nStarts < MaxStarts
        /\ MustFail => fail
        /\ nStarts' = h
        /\ server' = StartHandle(h, fail)
        /\ lnState' = IF fail THEN lnState ELSE [lnState EXCEPT ![h] = "bound"]
        /\ lastOp' = [op |-> "Start", err |-> IF fail THEN "listen" ELSE ""]
        /\ UNCHANGED <<cmd, addr, startTime, inShutdown, active, stopPc, stopH, stopped>>
        /\ UNCHANGED <<bindVars, storeVars, handlerVars, lockVars, cliVars>>

\* go s.server.Serve(ln): the accept loop starts, unless Shutdown came first;
\* then Serve returns ErrServerClosed and closes the listener.
Serve(h) ==
    /\ lnState[h] = "bound"
    /\ lnState' = [lnState EXCEPT ![h] = IF inShutdown[h] THEN "closed" ELSE "serving"]
    /\ UNCHANGED <<cmd, addr, startTime, server, nStarts, inShutdown, active, stopPc, stopH, lastOp, stopped>>
    /\ UNCHANGED <<bindVars, storeVars, handlerVars, lockVars, cliVars>>

\* The accept loop takes a connection and a handler starts on its request.
Accept(h) ==
    /\ lnState[h] = "serving"
    /\ active[h] < MaxConns
    /\ active' = [active EXCEPT ![h] = @ + 1]
    /\ UNCHANGED <<cmd, addr, startTime, server, nStarts, lnState, inShutdown, stopPc, stopH, lastOp, stopped>>
    /\ UNCHANGED <<bindVars, storeVars, handlerVars, lockVars, cliVars>>

\* The handler returns and its connection is closed.
Finish(h) ==
    /\ active[h] > 0
    /\ active' = [active EXCEPT ![h] = @ - 1]
    /\ UNCHANGED <<cmd, addr, startTime, server, nStarts, lnState, inShutdown, stopPc, stopH, lastOp, stopped>>
    /\ UNCHANGED <<bindVars, storeVars, handlerVars, lockVars, cliVars>>

\* if s.server == nil { return nil }
StopUnstartedErr_NotStarted == "not started"

StopUnstartedErr == ""

\* Server.Stop, up to where Shutdown starts to wait: Shutdown marks the
\* http.Server and closes the listeners its Serve registered.
Stop ==
    /\ stopPc = "idle"
    /\ IF server = NoServer
       THEN /\ lastOp' = [op |-> "Stop", err |-> StopUnstartedErr]
            /\ UNCHANGED <<lnState, inShutdown, stopPc, stopH, stopped>>
       ELSE /\ inShutdown' = [inShutdown EXCEPT ![server] = TRUE]
            /\ lnState' = [lnState EXCEPT ![server] = IF @ = "serving" THEN "closed" ELSE @]
            /\ stopPc' = "shutdown"
            /\ stopH' = server
            /\ stopped' = (stopped \/ Open(server))
            /\ UNCHANGED lastOp
    /\ UNCHANGED <<cmd, addr, startTime, server, nStarts, active>>
    /\ UNCHANGED <<bindVars, storeVars, handlerVars, lockVars, cliVars>>

\* What Shutdown does with the connections still in flight when its context
\* ends: it returns ctx.Err() and leaves them open.
AfterDeadline(n) == n

\* Shutdown returns nil once no connection has a request in flight.
StopReturns ==
    /\ stopPc = "shutdown"
    /\ active[stopH] = 0
    /\ stopPc' = "idle"
    /\ lastOp' = [op |-> "Stop", err |-> ""]
    /\ UNCHANGED <<cmd, addr, startTime, server, nStarts, lnState, inShutdown, active, stopH, stopped>>
    /\ UNCHANGED <<bindVars, storeVars, handlerVars, lockVars, cliVars>>

\* The deadline of Stop's context elapses while requests are in flight.
StopDeadline ==
    /\ stopPc = "shutdown"
    /\ active[stopH] > 0
    /\ stopPc' = "idle"
    /\ lastOp' = [op |-> "Stop", err |-> "context deadline exceeded"]
    /\ active' = [active EXCEPT ![stopH] = AfterDeadline(@)]
    /\ UNCHANGED <<cmd, addr, startTime, server, nStarts, lnState, inShutdown, stopH, stopped>>
    /\ UNCHANGED <<bindVars, storeVars, handlerVars, lockVars, cliVars>>

\* Before New is called by a caller of kind `k`: there is no Server, and its
\* fields are written as zero values.
Unbuilt(k, pc) ==
    /\ cmd = [kind |-> k, pc |-> pc, rpcServer |-> "nil", err |-> "",
              deferred |-> FALSE, stops |-> 0]
    /\ addr = ""
    /\ startTime = NoTime
    /\ wa = Iface(NoClient)
    /\ syncRunning = FALSE
    /\ server = NoServer
    /\ nStarts = 0
    /\ lnState = [h \in Handles |-> "none"]
    /\ inShutdown = [h \in Handles |-> FALSE]
    /\ active = [h \in Handles |-> 0]
    /\ stopPc = "idle"
    /\ stopH = NoServer
    /\ lastOp = [op |-> "none", err |-> ""]
    /\ stopped = FALSE
    /\ chats = <<>>
    /\ messages = <<>>
    /\ sentMsgs = <<>>
    /\ req = Request("", "")
    /\ waClient = Iface(NoClient)
    /\ resp = NoResp
    /\ calls = <<>>
    /\ mu = [writer |-> "none", readers |-> {}]
    /\ wpc = [w \in Writers |-> "idle"]
    /\ warg = [w \in Writers |-> NoClient]
    /\ rpc = [r \in Readers |-> "idle"]
    /\ rsnap = [r \in Readers |-> Iface(NoClient)]
    /\ rcalls = [r \in Readers |-> <<>>]
    /\ ctx = [r \in Readers |-> NoCtx]
    /\ parsed = NoParse

\* Options{Addr, DB, WA}: DB is nil or a Store, WA is nil or a client
NewOptions == [Addr : AddrOptions, DB : {"nil", "db"}, WA : HandlerClients \cup {NoClient}]

\* New(opts): an error and no Server when opts.DB is nil, else a Server with
\* the fields of the struct literal; rpcServer is what the caller gets.
New(opts) ==
    /\ cmd.pc = "new"
    /\ IF opts.DB = "nil"
       THEN /\ cmd' = [cmd EXCEPT !.pc = "newed"]
            /\ lastOp' = [op |-> "New", err |-> "db is required"]
            /\ UNCHANGED <<addr, startTime, wa, syncRunning>>
       ELSE /\ cmd' = [cmd EXCEPT !.pc = "newed", !.rpcServer = "srv"]
            /\ lastOp' = [op |-> "New", err |-> ""]
            /\ addr' = NewAddr(opts.Addr)
            /\ wa' = Iface(opts.WA)
            /\ startTime' \in Times
            /\ syncRunning' = FALSE
    /\ UNCHANGED <<server, nStarts, lnState, inShutdown, active, stopPc, stopH, stopped>>
    /\ UNCHANGED <<storeVars, handlerVars, lockVars, cliVars>>

InitLife ==
    \E a \in AddrOptions, c \in HandlerClients \cup {NoClient} : InitServer(a, c) /\ NoHistory

NextLife ==
    \/ \E fail \in BOOLEAN : Start(fail)
    \/ \E h \in Handles : Serve(h)
    \/ \E h \in Handles : Accept(h)
    \/ \E h \in Handles : Finish(h)
    \/ Stop
    \/ StopReturns
    \/ StopDeadline
    \/ \E c \in HandlerClients \cup {NoClient} : SetWA(c)
    \/ \E b \in BOOLEAN : SetSyncRunning(b)

\* The lifecycle: the owner calls Start and Stop one after the other while
\* connections come and go.
SpecLife == InitLife /\ [][NextLife]_vars

InitNew == Unbuilt("none", "new") /\ NoHistory

\* A caller constructs a Server, and uses the one it gets.
NextNew ==
    \/ \E opts \in NewOptions : New(opts)
    \/ cmd.rpcServer = "srv" /\ \E fail \in BOOLEAN : Start(fail)
    \/ cmd.rpcServer = "srv" /\ \E h \in Handles : Serve(h)
    \/ cmd.rpcServer = "srv" /\ \E h \in Handles : Accept(h)
    \/ cmd.rpcServer = "srv" /\ \E h \in Handles : Finish(h)
    \/ cmd.rpcServer = "srv" /\ Stop
    \/ cmd.rpcServer = "srv" /\ StopReturns
    \/ cmd.rpcServer = "srv" /\ StopDeadline
    \/ cmd.rpcServer = "srv" /\ \E c \in HandlerClients \cup {NoClient} : SetWA(c)
    \/ cmd.rpcServer = "srv" /\ \E b \in BOOLEAN : SetSyncRunning(b)

SpecNew == InitNew /\ [][NextNew]_vars

\* What the collaborators may answer to the send `r`: they are asked only as far
\* as the request gets.
sendOutcomesOf(r) ==
    IF r.method # "POST" \/ IsNil(wa) THEN {NoOutcome}
    ELSE {NoOutcome}
         \cup (IF sendChecks(r, wa, TRUE) # NoResp
               THEN {[NoOutcome EXCEPT !.connected = TRUE]} ELSE SendOutcomes)

\* What the Store may answer to a reading request whose checks gave `chk`.
readOutcomesOf(chk, all) == IF chk # NoResp THEN {NoRead} ELSE all

statusOutcomesOf(r) ==
    IF statusChecks(r) # NoResp THEN {NoRead}
    ELSE { o \in StatusOutcomes : IsNil(wa) => ~o.connected }

Next ==
    \/ \E r \in SendRequests : \E o \in sendOutcomesOf(r) : handleSend(r, o)
    \/ \E r \in PingRequests : handlePing(r)
    \/ \E r \in StatusRequests : \E o \in statusOutcomesOf(r) : handleStatus(r, o)
    \/ \E r \in ChatsRequests :
         \E o \in readOutcomesOf(chatsChecks(r), ReadOutcomes) : handleChats(r, o)
    \/ \E r \in MessagesRequests :
         \E o \in readOutcomesOf(messagesChecks(r), ReadOutcomes) : handleMessages(r, o)
    \/ \E r \in SearchRequests :
         \E o \in readOutcomesOf(searchChecks(r), ReadOutcomes) : handleSearch(r, o)
    \/ \E c \in HandlerClients \cup {NoClient} : SetWA(c)
    \/ \E b \in BOOLEAN : SetSyncRunning(b)

Spec == Init /\ [][Next]_vars

----------------------------------------------------------------------------
(* The commands that own a Server: rpc, rpc --sync and sync --rpc *)

CmdKinds == {"rpc", "rpc --sync", "sync --rpc"}

\* rpc.Options{Addr: addr, DB: a.DB()}: the commands pass no client
CmdOptions_WithClient == [Addr : AddrOptions, DB : {"nil", "db"}, WA : HandlerClients]

CmdOptions == [Addr : AddrOptions, DB : {"nil", "db"}, WA : {NoClient}]

\* A step of the command that touches nothing of the Server.
CmdOnly ==
    /\ UNCHANGED <<addr, startTime, server, nStarts, lnState, inShutdown, active, stopPc, stopH,
                   lastOp, stopped>>
    /\ UNCHANGED <<bindVars, storeVars, handlerVars, lockVars, cliVars>>

\* The command returns `err`: its deferred calls run next.
CmdReturn(err) == cmd' = [cmd EXCEPT !.pc = "exit", !.err = err]

\* a.EnsureAuthed(): in sync it comes before the Server is made, in rpc --sync
\* after Start
Cmd_EnsureAuthed(ok) ==
    /\ cmd.pc = "auth"
    /\ IF ~ok THEN CmdReturn("not authenticated")
       ELSE cmd' = [cmd EXCEPT !.pc = IF cmd.kind = "sync --rpc" THEN "new" ELSE "sync"]
    /\ CmdOnly

\* rpcServer, err := rpc.New(...); if err != nil { return ... }
Cmd_NewChecked ==
    /\ cmd.pc = "newed"
    /\ IF lastOp.err # "" THEN CmdReturn("create rpc server") ELSE cmd' = [cmd EXCEPT !.pc = "start"]
    /\ CmdOnly

\* rpcServer.Start()
Cmd_Start(fail) == cmd.pc = "start" /\ lastOp.op = "New" /\ Start(fail)

\* defer func() { ... rpcServer.Stop(shutdownCtx) }(): reached when Start
\* returned no error
StopDeferred_Always(err) == TRUE

StopDeferred(err) == err = ""

\* if err := rpcServer.Start(); err != nil { return ... }; defer ...
Cmd_StartChecked ==
    /\ cmd.pc = "start" /\ lastOp.op = "Start"
    /\ cmd' = [cmd EXCEPT
                 !.deferred = StopDeferred(lastOp.err),
                 !.err = IF lastOp.err # "" THEN "start rpc server" ELSE "",
                 !.pc = IF lastOp.err # "" THEN "exit"
                        ELSE IF cmd.kind = "rpc" THEN "wait"
                        ELSE IF cmd.kind = "rpc --sync" THEN "auth" ELSE "sync"]
    /\ CmdOnly

\* <-ctx.Done() of rpc without --sync: an interrupt ends the wait
Cmd_Interrupt ==
    /\ cmd.pc = "wait"
    /\ CmdReturn("")
    /\ CmdOnly

\* a.Sync fails before it connected: AfterConnect is never called
Sync_Fails ==
    /\ cmd.pc = "sync"
    /\ cmd' = [cmd EXCEPT !.pc = "synced", !.err = "sync failed"]
    /\ CmdOnly

\* a.Sync connected and calls AfterConnect
Sync_Connected ==
    /\ cmd.pc = "sync"
    /\ cmd' = [cmd EXCEPT !.pc = "ac_bind"]
    /\ CmdOnly

\* afterConnect: if wa := a.WA(); wa != nil { rpcServer.SetWA(&waWrapper{wa: wa}) }
AfterConnect_SetWA(hasWA) ==
    /\ cmd.pc = "ac_bind"
    /\ wa' = IF hasWA THEN Iface("c1") ELSE wa
    /\ cmd' = [cmd EXCEPT !.pc = "ac_flag"]
    /\ UNCHANGED <<addr, startTime, server, nStarts, lnState, inShutdown, active, stopPc, stopH,
                   lastOp, stopped>>
    /\ UNCHANGED <<syncRunning, storeVars, handlerVars, lockVars, cliVars>>

\* afterConnect: rpcServer.SetSyncRunning(true); return nil
AfterConnect_SetSyncRunning ==
    /\ cmd.pc = "ac_flag"
    /\ syncRunning' = TRUE
    /\ cmd' = [cmd EXCEPT !.pc = "syncing"]
    /\ UNCHANGED <<addr, startTime, server, nStarts, lnState, inShutdown, active, stopPc, stopH,
                   lastOp, stopped>>
    /\ UNCHANGED <<wa, storeVars, handlerVars, lockVars, cliVars>>

\* a.Sync returns: it is idle (once), it failed, or the context was cancelled
Sync_Returns(err) ==
    /\ cmd.pc = "syncing"
    /\ cmd' = [cmd EXCEPT !.pc = "synced", !.err = err]
    /\ CmdOnly

\* rpcServer.SetSyncRunning(false), before the error of Sync is looked at
FlagAfterSync_KeepOnError(err, cur) == IF err # "" THEN cur ELSE FALSE

FlagAfterSync(err, cur) == FALSE

\* res, err := a.Sync(...); rpcServer.SetSyncRunning(false); if err != nil { return err }
Cmd_SyncReturned ==
    /\ cmd.pc = "synced"
    /\ syncRunning' = FlagAfterSync(cmd.err, syncRunning)
    /\ cmd' = [cmd EXCEPT !.pc = "exit"]
    /\ UNCHANGED <<addr, startTime, server, nStarts, lnState, inShutdown, active, stopPc, stopH,
                   lastOp, stopped>>
    /\ UNCHANGED <<wa, storeVars, handlerVars, lockVars, cliVars>>

\* The command returns: the deferred function, if registered, calls Stop.
Cmd_RunDeferred ==
    /\ cmd.pc = "exit"
    /\ cmd' = IF cmd.deferred
              THEN [cmd EXCEPT !.pc = "in_stop", !.stops = @ + 1]
              ELSE [cmd EXCEPT !.pc = "done"]
    /\ CmdOnly

\* _ = rpcServer.Stop(shutdownCtx), with a deadline of 5 seconds
Cmd_Stop == cmd.pc = "in_stop" /\ lastOp.op # "Stop" /\ Stop

\* Stop has returned, and so does the command.
Cmd_StopReturned ==
    /\ cmd.pc = "in_stop" /\ lastOp.op = "Stop" /\ stopPc = "idle"
    /\ cmd' = [cmd EXCEPT !.pc = "done"]
    /\ CmdOnly

\* The /status requests of the clients of a started Server.
CmdStatusOutcomes == { o \in StatusOutcomes : o.listErr = "" /\ o.countErr = "" /\ ~o.fts }

Cmd_Status(o) ==
    /\ \E h \in Handles : lnState[h] # "none"
    /\ IsNil(wa) => ~o.connected
    /\ handleStatus(Request("/status", "GET"), o)

\* The /send requests of the clients of a started Server: a well-formed one
\* and one whose body does not decode.
CmdSends ==
    { r \in SendRequests :
        /\ r.method = "POST"
        /\ \/ r.malformed
           \/ r.to = <<" ", "5", " ">> /\ r.chat_jid = <<>> /\ r.message = <<" ", "hi">> }
CmdSendOutcomes(r) == { o \in sendOutcomesOf(r) : ~o.chatErr /\ ~o.msgErr /\ o.msgID # "id2" }

Cmd_Send(r, o) ==
    /\ \E h \in Handles : lnState[h] # "none"
    /\ handleSend(r, o)

InitCmd ==
    \E k \in CmdKinds : Unbuilt(k, IF k = "sync --rpc" THEN "auth" ELSE "new") /\ NoHistory

NextCmd ==
    \/ \E ok \in BOOLEAN : Cmd_EnsureAuthed(ok)
    \/ \E opts \in CmdOptions : New(opts)
    \/ Cmd_NewChecked
    \/ \E fail \in BOOLEAN : Cmd_Start(fail)
    \/ Cmd_StartChecked
    \/ Cmd_Interrupt
    \/ Sync_Fails
    \/ Sync_Connected
    \/ \E hasWA \in BOOLEAN : AfterConnect_SetWA(hasWA)
    \/ AfterConnect_SetSyncRunning
    \/ \E err \in {"", "sync failed"} : Sync_Returns(err)
    \/ Cmd_SyncReturned
    \/ Cmd_RunDeferred
    \/ Cmd_Stop
    \/ StopReturns
    \/ StopDeadline
    \/ Cmd_StopReturned
    \/ \E h \in Handles : Serve(h)
    \/ \E h \in Handles : Accept(h)
    \/ \E h \in Handles : Finish(h)
    \/ \E o \in CmdStatusOutcomes : Cmd_Status(o)
    \/ \E r \in CmdSends : \E o \in CmdSendOutcomes(r) : Cmd_Send(r, o)

SpecCmd == InitCmd /\ [][NextCmd]_vars

\* The command's goroutine runs while it can, and Shutdown returns: when no
\* request is in flight, or when the deadline of its context has passed.
\* Nothing is granted to the interrupt, to EnsureAuthed or to Sync.
FairCmd ==
    /\ WF_vars(Cmd_NewChecked)
    /\ WF_vars(\E fail \in BOOLEAN : Cmd_Start(fail))
    /\ WF_vars(Cmd_StartChecked)
    /\ WF_vars(Cmd_SyncReturned)
    /\ WF_vars(Cmd_RunDeferred)
    /\ WF_vars(Cmd_Stop)
    /\ WF_vars(StopReturns \/ StopDeadline)
    /\ WF_vars(Cmd_StopReturned)

SpecCmdFair == InitCmd /\ [][NextCmd]_vars /\ FairCmd

----------------------------------------------------------------------------
(* The Store shared by the send handler and the sync task *)

\* What the sync task writes: chats and received messages, through the same
\* upserts as the send handler and with the same keys.
SyncJIDs == { [User |-> <<"5">>, Server |-> DefaultUserServer],
              [User |-> <<"7">>, Server |-> GroupServer] }
SyncNames == { <<"Bob">> }
SyncTexts == { <<"hi">> }
SyncTime == 2

SyncMessage(j, id, text) ==
    [ChatJID |-> JIDString(j), ChatName |-> <<"Bob">>, MsgID |-> id,
     SenderJID |-> JIDString(j), SenderName |-> "Bob", Timestamp |-> SyncTime,
     FromMe |-> FALSE, Text |-> text]

\* the sync task's Store.UpsertChat
SyncUpsertChat(j, name) ==
    /\ \/ Len(chats) < MaxRows
       \/ \E c \in Rows(chats) : c.JID = JIDString(j)
    /\ chats' = UpsertChat(chats, ChatRow(JIDString(j), ChatKind(j), name, SyncTime), FALSE)
    /\ UNCHANGED <<messages, bindVars, handlerVars, lifeVars, cmd, lockVars, cliVars>>

\* the sync task's Store.UpsertMessage
SyncUpsertMessage(j, id, text) ==
    /\ \/ Len(messages) < MaxRows
       \/ \E m \in Rows(messages) : m.ChatJID = JIDString(j) /\ m.MsgID = id
    /\ messages' = UpsertMessage(messages, SyncMessage(j, id, text), FALSE)
    /\ UNCHANGED <<chats, bindVars, handlerVars, lifeVars, cmd, lockVars, cliVars>>

\* The requests beside the sync task: a send that reaches the upserts, and
\* lists with and without a limit and a filter.
StoreSends ==
    { r \in SendRequests :
        r.to = <<" ", "5", " ">> /\ r.chat_jid = <<>> /\ r.message = <<" ", "hi">>
        /\ r.method = "POST" }
StoreChats == { r \in ChatsRequests : r.method = "GET" /\ r.query = <<>> /\ r.limit \in {<<>>, <<"1">>} }
StoreMessages ==
    { r \in MessagesRequests :
        r.method = "GET" /\ r.chat_jid # <<" ">> /\ r.chat_jid # <<>> /\ r.before = <<>> }
StoreSearches == { r \in SearchRequests : r.method = "GET" /\ r.query = <<"hi">> /\ r.limit # <<"-1">> }

InitStore == InitServer("", "c1") /\ NoHistory

NextStore ==
    \/ \E j \in SyncJIDs, name \in SyncNames : SyncUpsertChat(j, name)
    \/ \E j \in SyncJIDs, id \in MsgIDs, text \in SyncTexts : SyncUpsertMessage(j, id, text)
    \/ \E r \in StoreSends : \E o \in SendOutcomes : handleSend(r, o)
    \/ \E r \in StoreChats : \E o \in ReadOutcomes : handleChats(r, o)
    \/ \E r \in StoreMessages : \E o \in ReadOutcomes : handleMessages(r, o)
    \/ \E r \in StoreSearches : \E o \in ReadOutcomes : handleSearch(r, o)

\* The handlers beside the sync task, on one Store.
SpecStore == InitStore /\ [][NextStore]_vars

----------------------------------------------------------------------------
(* The handlers on a Server that is started and stopped *)

\* net/http calls a handler for a request of an accepted connection.
Serving == \E h \in Handles : active[h] > 0

ServedSendOutcomes == { o \in SendOutcomes : ~o.chatErr /\ ~o.msgErr /\ o.msgID # "id2" }

InitServe == InitServer("", "c1") /\ NoHistory

NextServe ==
    \/ Start(FALSE)
    \/ \E h \in Handles : Serve(h)
    \/ \E h \in Handles : Accept(h)
    \/ \E h \in Handles : Finish(h)
    \/ Stop
    \/ StopReturns
    \/ StopDeadline
    \/ Serving /\ \E b \in BOOLEAN : SetSyncRunning(b)
    \/ Serving /\ handlePing(Request("/ping", "GET"))
    \/ Serving /\ \E o \in CmdStatusOutcomes : handleStatus(Request("/status", "GET"), o)
    \/ Serving /\ \E r \in StoreChats : \E o \in ReadOutcomes : handleChats(r, o)
    \/ Serving /\ \E r \in StoreMessages : \E o \in ReadOutcomes : handleMessages(r, o)
    \/ Serving /\ \E r \in StoreSearches : \E o \in ReadOutcomes : handleSearch(r, o)
    \/ Serving /\ \E r \in StoreSends : \E o \in ServedSendOutcomes : handleSend(r, o)

\* The six handlers between Start and Stop, while connections come and go.
SpecServe == InitServe /\ [][NextServe]_vars

----------------------------------------------------------------------------
(* The sends with every kind of recipient *)

\* to and chat_jid: absent, blank, a padded user, a group, a broadcast list,
\* the status broadcast, and an identifier that does not parse
RecipientVals ==
    { <<>>, <<" ">>, <<" ", "5", " ">>, <<"7", "@", "g.us">>, <<"9", "@", "broadcast">>,
      <<"status", "@", "broadcast">>, <<"5", ":", "@", "s.whatsapp.net">> }

RecipientSends ==
    { SendBody(Request("/send", "POST"), to, cj, msg) :
        to \in RecipientVals,
        cj \in { <<>>, <<" ">>, <<" ", "5", " ">>, <<"7", "@", "g.us">> },
        msg \in { <<" ">>, <<" ", "hi", " ">> } }

\* What the client answers to them: a message identifier and a chat name,
\* which may be empty, at one of two instants.
RecipientOutcomes ==
    [connected : {TRUE}, sendErr : {""}, msgID : MsgIDs, chatName : { <<>>, <<"Alice">> },
     now : {1, 2}, chatErr : {FALSE}, msgErr : {FALSE}]

InitSend == InitServer("", "c1") /\ NoHistory

\* The client is asked for an identifier, a name and the time only by a send
\* that passes the checks.
recipientOutcomesOf(r) ==
    IF sendChecks(r, wa, TRUE) # NoResp
    THEN {[NoOutcome EXCEPT !.connected = TRUE]} ELSE RecipientOutcomes

NextSend == \E r \in RecipientSends : \E o \in recipientOutcomesOf(r) : handleSend(r, o)

\* Sends to every kind of recipient, through either field.
SpecSend == InitSend /\ [][NextSend]_vars

----------------------------------------------------------------------------
(* The list requests with every kind of limit and of time bound *)

\* limit: absent, no number, negative, zero, positive
LimitVals == { <<>>, <<"x">>, <<"-1">>, <<"0">>, <<"1">>, <<"2">> }

\* before and after: absent, no RFC 3339 text, and two instants
BoundVals == { <<>>, <<"yesterday">>, <<"2024-01-01T00:00:01Z">>, <<"2024-01-01T00:00:02Z">> }

QueryChats == { [Request("/chats", "GET") EXCEPT !.limit = l] : l \in LimitVals }

QueryMessages ==
    { [Request("/messages", "GET") EXCEPT !.chat_jid = <<"5", "@", "s.whatsapp.net">>,
                                          !.limit = l] : l \in LimitVals }
    \cup { [Request("/messages", "GET") EXCEPT !.chat_jid = <<"5", "@", "s.whatsapp.net">>,
                                               !.before = b, !.after = a] :
             b \in BoundVals, a \in BoundVals }

QuerySearches ==
    { [Request("/search", m) EXCEPT !.query = <<"hi">>, !.limit = l] :
        m \in {"GET", "POST"}, l \in LimitVals }

InitQuery == InitServer("", "c1") /\ NoHistory

NextQuery ==
    \/ \E j \in SyncJIDs, name \in SyncNames : SyncUpsertChat(j, name)
    \/ \E j \in SyncJIDs, id \in {"id1"}, text \in SyncTexts : SyncUpsertMessage(j, id, text)
    \/ \E r \in QueryChats : \E o \in ReadOutcomes : handleChats(r, o)
    \/ \E r \in QueryMessages : \E o \in ReadOutcomes : handleMessages(r, o)
    \/ \E r \in QuerySearches :
         \E o \in readOutcomesOf(searchChecks(r), ReadOutcomes) : handleSearch(r, o)

\* The list handlers beside the sync task, asked with every limit and bound.
SpecQuery == InitQuery /\ [][NextQuery]_vars

----------------------------------------------------------------------------
(* parseTime (cmd/wacli/helpers.go) *)

\* A time text is a sequence of tokens: a date, "T", " ", a clock, a zone, or
\* something else. The calendar gives the dates of the texts and of the days
\* next to them, with the number of the day counted from 2026-01-01.
Calendar ==
    { <<"2026-02-06", 2026, 2, 6, 36>>, <<"2026-02-07", 2026, 2, 7, 37>>,
      <<"2026-02-08", 2026, 2, 8, 38>>, <<"2026-02-27", 2026, 2, 27, 57>>,
      <<"2026-02-28", 2026, 2, 28, 58>>,
      <<"2026-03-01", 2026, 3, 1, 59>>, <<"2026-03-02", 2026, 3, 2, 60>> }

\* The clocks of the texts: hour, minute, second, and the milliseconds of a
\* fraction written after the seconds (time.Parse reads one even where the
\* layout has none).
Clocks ==
    { <<"00:00:00", 0, 0, 0, 0>>, <<"01:30:00", 1, 30, 0, 0>>, <<"20:00:01", 20, 0, 1, 0>>,
      <<"20:00:01.5", 20, 0, 1, 500>>, <<"23:59:59", 23, 59, 59, 0>> }

\* The zones of the texts and their offsets from UTC in hours.
Zones == { <<"Z", 0>>, <<"+02:00", 2>>, <<"-05:00", -5>> }

\* A time.Time: the instant in seconds from 2026-01-01T00:00:00Z and the
\* milliseconds after it, and the location it is shown in. time.Time{} is
\* the zero instant in UTC.
ZeroTime == [unix |-> 0, msec |-> 0, loc |-> "UTC"]

ZoneOffset(loc) == IF loc = "UTC" THEN 0 ELSE (CHOOSE z \in Zones : z[1] = loc)[2]

\* time.Date(y, m, d, h, mi, s, 0, loc) of a calendar day and a clock
TimeOf(day, clock, loc) ==
    [unix |-> day[5] * 86400 + clock[2] * 3600 + clock[3] * 60 + clock[4]
              - ZoneOffset(loc) * 3600,
     msec |-> clock[5],
     loc |-> loc]

\* t.Date() and t.Clock(): what t shows in its location
WallSeconds(t) == t.unix + ZoneOffset(t.loc) * 3600
DateOf(t) == CHOOSE d \in Calendar : d[5] = WallSeconds(t) \div 86400
ClockOf(t) ==
    LET sec == WallSeconds(t) % 86400
    IN  <<sec \div 3600, (sec % 3600) \div 60, sec % 60>>

\* t.UTC()
UTC_KeepLocation(t) == t

UTC(t) == [t EXCEPT !.loc = "UTC"]

IsDate(x) == \E d \in Calendar : d[1] = x
IsClock(x) == \E c \in Clocks : c[1] = x
IsZone(x) == \E z \in Zones : z[1] = x
DayOfText(x) == CHOOSE d \in Calendar : d[1] = x
ClockOfText(x) == CHOOSE c \in Clocks : c[1] = x

\* time.Parse(time.RFC3339, s): date "T" clock zone; the result is in UTC for
\* "Z" and else in a fixed zone of the offset
ParseLayoutRFC3339(s) ==
    IF Len(s) = 4 /\ IsDate(s[1]) /\ s[2] = "T" /\ IsClock(s[3]) /\ IsZone(s[4])
    THEN [ok |-> TRUE,
          t |-> TimeOf(DayOfText(s[1]), ClockOfText(s[3]), IF s[4] = "Z" THEN "UTC" ELSE s[4])]
    ELSE [ok |-> FALSE, t |-> ZeroTime]

\* time.ParseInLocation("2006-01-02 15:04:05", s, time.UTC): the space of the
\* layout stands for a run of one or more spaces of the text
ParseLayoutDateTime(s) ==
    IF /\ Len(s) >= 3 /\ IsDate(s[1]) /\ IsClock(s[Len(s)])
       /\ \A i \in 2..(Len(s) - 1) : s[i] = " "
    THEN [ok |-> TRUE, t |-> TimeOf(DayOfText(s[1]), ClockOfText(s[Len(s)]), "UTC")]
    ELSE [ok |-> FALSE, t |-> ZeroTime]

\* time.ParseInLocation("2006-01-02", s, time.UTC)
ParseLayoutDate(s) ==
    IF Len(s) = 1 /\ IsDate(s[1])
    THEN [ok |-> TRUE, t |-> TimeOf(DayOfText(s[1]), <<"00:00:00", 0, 0, 0, 0>>, "UTC")]
    ELSE [ok |-> FALSE, t |-> ZeroTime]

parseTime(s0) ==
    LET s == TrimSpace(s0)
    IN  IF s = <<>> THEN [t |-> ZeroTime, err |-> "time is required"]
        ELSE IF ParseLayoutRFC3339(s).ok THEN [t |-> UTC(ParseLayoutRFC3339(s).t), err |-> ""]
        ELSE IF ParseLayoutDateTime(s).ok THEN [t |-> ParseLayoutDateTime(s).t, err |-> ""]
        ELSE IF ParseLayoutDate(s).ok THEN [t |-> ParseLayoutDate(s).t, err |-> ""]
        ELSE [t |-> ZeroTime, err |-> "unsupported time format"]

\* The texts given to parseTime: dates, clocks and zones that exist and that
\* do not (a thirtieth of February, a twenty-fifth hour, a zone name), in
\* the three layouts and in others, bare and padded with white space.
DateTexts == {"2026-02-07", "2026-02-28", "2026-03-01", "2026-02-30"}
ClockTexts == {"00:00:00", "01:30:00", "20:00:01", "20:00:01.5", "23:59:59", "25:00:00"}
ZoneTexts == {"Z", "+02:00", "-05:00", "CET"}

TimeBodies ==
    { <<d>> : d \in DateTexts }
    \cup { <<d, " ", c>> : d \in DateTexts, c \in ClockTexts }
    \cup { <<d, "T", c, z>> : d \in DateTexts, c \in ClockTexts, z \in ZoneTexts }
    \cup { <<d, "T", c>> : d \in {"2026-02-07"}, c \in ClockTexts }
    \cup { <<c>> : c \in ClockTexts }
    \cup { <<>>, <<"invalid">>, <<"2026-02-07", " ", " ", "20:00:01">>,
           <<"20:00:01", " ", "2026-02-07">> }

TimeInputs ==
    { l \o b \o r : l \in { <<>>, <<" ">> }, b \in TimeBodies, r \in { <<>>, <<" ">> } }

\* The command line calls parseTime(s).
ParseTimeCall(s) ==
    /\ parsed' = [called |-> TRUE, input |-> s, t |-> parseTime(s).t, err |-> parseTime(s).err]
    /\ UNCHANGED <<bindVars, storeVars, handlerVars, lifeVars, cmd, lockVars>>

InitParse == InitServer("", NoClient) /\ NoHistory

NextParse == \E s \in TimeInputs : ParseTimeCall(s)

\* parseTime on every text.
SpecParse == InitParse /\ [][NextParse]_vars

----------------------------------------------------------------------------
(* The binding under Server.mu, step by step *)

\* mu.Lock() returns when no goroutine holds the lock, for reading or writing.
CanLock == mu.writer = "none" /\ mu.readers = {}

\* mu.RLock() returns when no goroutine holds the lock for writing.
CanRLock_IgnoreWriter == TRUE

CanRLock == mu.writer = "none"

\* A goroutine calls SetWA(c).
SetWA_Call(w, c) ==
    /\ wpc[w] = "idle"
    /\ wpc' = [wpc EXCEPT ![w] = "Lock"]
    /\ warg' = [warg EXCEPT ![w] = c]
    /\ offered' = offered \cup {c}
    /\ rStable' = [r \in Readers |-> rStable[r] /\ rpc[r] \in {"idle", "done"}]
    /\ UNCHANGED <<mu, rpc, rsnap, rExpect, lastReturned, rcalls, ctx>>
    /\ UNCHANGED <<bindVars, storeVars, handlerVars, lifeVars, cmd, cliVars>>

\* s.mu.Lock()
SetWA_Lock(w) ==
    /\ wpc[w] = "Lock"
    /\ CanLock
    /\ mu' = [mu EXCEPT !.writer = w]
    /\ wpc' = [wpc EXCEPT ![w] = "StoreTyp"]
    /\ UNCHANGED <<warg, rpc, rsnap, rStable, rExpect, offered, lastReturned, rcalls, ctx>>
    /\ UNCHANGED <<bindVars, storeVars, handlerVars, lifeVars, cmd, cliVars>>

\* s.wa = wa: the type word of the interface value
SetWA_StoreTyp(w) ==
    /\ wpc[w] = "StoreTyp"
    /\ wa' = [wa EXCEPT !.typ = ClientType(warg[w])]
    /\ wpc' = [wpc EXCEPT ![w] = "StorePtr"]
    /\ UNCHANGED <<mu, warg, rpc, rsnap, rStable, rExpect, offered, lastReturned, rcalls, ctx>>
    /\ UNCHANGED <<syncRunning, storeVars, handlerVars, lifeVars, cmd, cliVars>>

\* s.wa = wa: the data word of the interface value
SetWA_StorePtr(w) ==
    /\ wpc[w] = "StorePtr"
    /\ wa' = [wa EXCEPT !.ptr = warg[w]]
    /\ wpc' = [wpc EXCEPT ![w] = "Unlock"]
    /\ UNCHANGED <<mu, warg, rpc, rsnap, rStable, rExpect, offered, lastReturned, rcalls, ctx>>
    /\ UNCHANGED <<syncRunning, storeVars, handlerVars, lifeVars, cmd, cliVars>>

\* defer s.mu.Unlock(), and SetWA returns
SetWA_Unlock(w) ==
    /\ wpc[w] = "Unlock"
    /\ mu' = [mu EXCEPT !.writer = "none"]
    /\ wpc' = [wpc EXCEPT ![w] = "idle"]
    /\ lastReturned' = warg[w]
    /\ UNCHANGED <<warg, rpc, rsnap, rStable, rExpect, offered, rcalls, ctx>>
    /\ UNCHANGED <<bindVars, storeVars, handlerVars, lifeVars, cmd, cliVars>>

\* s.mu.RLock() of a handler
Snapshot_RLock(r) ==
    /\ rpc[r] = "idle"
    /\ CanRLock
    /\ mu' = [mu EXCEPT !.readers = @ \cup {r}]
    /\ rpc' = [rpc EXCEPT ![r] = "LoadTyp"]
    /\ rStable' = [rStable EXCEPT ![r] = \A w \in Writers : wpc[w] = "idle"]
    /\ rExpect' = [rExpect EXCEPT ![r] = lastReturned]
    /\ ctx' = [ctx EXCEPT ![r] = NoCtx]
    /\ UNCHANGED <<wpc, warg, rsnap, offered, lastReturned, rcalls>>
    /\ UNCHANGED <<bindVars, storeVars, handlerVars, lifeVars, cmd, cliVars>>

\* waClient := s.wa: the type word
Snapshot_LoadTyp(r) ==
    /\ rpc[r] = "LoadTyp"
    /\ rsnap' = [rsnap EXCEPT ![r].typ = wa.typ]
    /\ rpc' = [rpc EXCEPT ![r] = "LoadPtr"]
    /\ UNCHANGED <<mu, wpc, warg, rStable, rExpect, offered, lastReturned, rcalls, ctx>>
    /\ UNCHANGED <<bindVars, storeVars, handlerVars, lifeVars, cmd, cliVars>>

\* waClient := s.wa: the data word
Snapshot_LoadPtr(r) ==
    /\ rpc[r] = "LoadPtr"
    /\ rsnap' = [rsnap EXCEPT ![r].ptr = wa.ptr]
    /\ rpc' = [rpc EXCEPT ![r] = "RUnlock"]
    /\ UNCHANGED <<mu, wpc, warg, rStable, rExpect, offered, lastReturned, rcalls, ctx>>
    /\ UNCHANGED <<bindVars, storeVars, handlerVars, lifeVars, cmd, cliVars>>

\* s.mu.RUnlock(): the snapshot is taken and the handler goes on with it, to its
\* collaborator calls (IsConnected, SendText, ResolveChatName, the Store), where
\* it can stay for any time.
Snapshot_RUnlock_Deferred(r) ==
    /\ rpc[r] = "RUnlock"
    /\ rpc' = [rpc EXCEPT ![r] = "done"]
    /\ UNCHANGED <<mu, wpc, warg, rsnap, rStable, rExpect, offered, lastReturned, rcalls, ctx>>
    /\ UNCHANGED <<bindVars, storeVars, handlerVars, lifeVars, cmd, cliVars>>

Snapshot_RUnlock(r) ==
    /\ rpc[r] = "RUnlock"
    /\ mu' = [mu EXCEPT !.readers = @ \ {r}]
    /\ rpc' = [rpc EXCEPT ![r] = "done"]
    /\ UNCHANGED <<wpc, warg, rsnap, rStable, rExpect, offered, lastReturned, rcalls, ctx>>
    /\ UNCHANGED <<bindVars, storeVars, handlerVars, lifeVars, cmd, cliVars>>

\* The handler returns; its goroutine serves the next request.
Handler_Return(r) ==
    /\ rpc[r] = "done"
    /\ rpc' = [rpc EXCEPT ![r] = "idle"]
    /\ UNCHANGED <<mu, wpc, warg, rsnap, rStable, rExpect, offered, lastReturned, rcalls, ctx>>
    /\ UNCHANGED <<bindVars, storeVars, handlerVars, lifeVars, cmd, cliVars>>

\* The receiver of the client calls of handleSend: its local waClient.
SendReceiver_Reread(r) == wa

SendReceiver(r) == rsnap[r]

\* if waClient == nil || !waClient.IsConnected(): 503, and the handler is done
Send_IsConnected(r, conn) ==
    LET w == SendReceiver(r)
    IN  /\ rpc[r] = "done"
        /\ IF IsNil(w)
           THEN /\ ~conn
                /\ rcalls' = [rcalls EXCEPT ![r] = << <<"resp", 503>> >>]
                /\ rpc' = [rpc EXCEPT ![r] = "answered"]
           ELSE /\ rcalls' = [rcalls EXCEPT ![r] =
                                << <<"IsConnected", w, conn>> >>
                                \o (IF conn THEN <<>> ELSE << <<"resp", 503>> >>)]
                /\ rpc' = [rpc EXCEPT ![r] = IF conn THEN "WithTimeout" ELSE "answered"]
        /\ UNCHANGED <<mu, wpc, warg, rsnap, rStable, rExpect, offered, lastReturned, ctx>>
        /\ UNCHANGED <<bindVars, storeVars, handlerVars, lifeVars, cmd, cliVars>>

\* The parent of the context of the client calls: r.Context()
SendContextParent_Background(c) == ""

SendContextParent(c) == c.req

\* ctx, cancel := context.WithTimeout(r.Context(), 30*time.Second); defer cancel():
\* a context made from a cancelled parent is cancelled from the start. The
\* call of SendText follows, and blocks in the client.
Send_WithTimeout(r) ==
    /\ rpc[r] = "WithTimeout"
    /\ ctx' = [ctx EXCEPT ![r].made = TRUE, ![r].err = SendContextParent(ctx[r])]
    /\ rpc' = [rpc EXCEPT ![r] = "SendText"]
    /\ UNCHANGED <<mu, wpc, warg, rsnap, rStable, rExpect, offered, lastReturned, rcalls>>
    /\ UNCHANGED <<bindVars, storeVars, handlerVars, lifeVars, cmd, cliVars>>

\* The caller drops its connection while its request is handled: net/http
\* cancels r.Context(), and with it every live context derived from it.
Request_Cancel(r) ==
    /\ rpc[r] \notin {"idle", "answered"}
    /\ ctx[r].req = ""
    /\ ctx' = [ctx EXCEPT
                 ![r].req = "context canceled",
                 ![r].at = rpc[r],
                 ![r].err = IF ctx[r].made /\ ctx[r].err = ""
                            THEN SendContextParent([ctx[r] EXCEPT !.req = "context canceled"])
                            ELSE @]
    /\ UNCHANGED <<mu, wpc, warg, rpc, rsnap, rStable, rExpect, offered, lastReturned, rcalls>>
    /\ UNCHANGED <<bindVars, storeVars, handlerVars, lifeVars, cmd, cliVars>>

\* The 30 seconds of the send's context pass while a client call uses it.
Send_Deadline(r) ==
    /\ rpc[r] \in {"SendText", "ResolveChatName"}
    /\ ctx[r].made /\ ctx[r].err = ""
    /\ ctx' = [ctx EXCEPT ![r].err = "context deadline exceeded"]
    /\ UNCHANGED <<mu, wpc, warg, rpc, rsnap, rStable, rExpect, offered, lastReturned, rcalls>>
    /\ UNCHANGED <<bindVars, storeVars, handlerVars, lifeVars, cmd, cliVars>>

\* SendText returns, and handleSend answers 500 on an error
Send_SendText(r, err) ==
    LET w == SendReceiver(r)
    IN  /\ rpc[r] = "SendText"
        /\ rcalls' = [rcalls EXCEPT ![r] =
                        @ \o << <<"SendText", w, err>> >>
                          \o (IF err = "" THEN <<>> ELSE << <<"resp", 500>> >>)]
        /\ rpc' = [rpc EXCEPT ![r] = IF err = "" THEN "ResolveChatName" ELSE "answered"]
        /\ UNCHANGED <<mu, wpc, warg, rsnap, rStable, rExpect, offered, lastReturned, ctx>>
        /\ UNCHANGED <<bindVars, storeVars, handlerVars, lifeVars, cmd, cliVars>>

\* chatName := waClient.ResolveChatName(ctx, toJID, ""), the upserts, and 200
Send_ResolveChatName(r) ==
    LET w == SendReceiver(r)
    IN  /\ rpc[r] = "ResolveChatName"
        /\ rcalls' = [rcalls EXCEPT ![r] =
                        @ \o << <<"ResolveChatName", w>>, <<"resp", 200>> >>]
        /\ rpc' = [rpc EXCEPT ![r] = "answered"]
        /\ UNCHANGED <<mu, wpc, warg, rsnap, rStable, rExpect, offered, lastReturned, ctx>>
        /\ UNCHANGED <<bindVars, storeVars, handlerVars, lifeVars, cmd, cliVars>>

\* handleSend returns, its deferred cancel runs if it was registered, and its
\* goroutine serves the next request.
Send_Return(r) ==
    /\ rpc[r] = "answered"
    /\ rpc' = [rpc EXCEPT ![r] = "idle"]
    /\ rcalls' = [rcalls EXCEPT ![r] = <<>>]
    /\ ctx' = [ctx EXCEPT
                 ![r].released = ctx[r].made,
                 ![r].err = IF ctx[r].made /\ @ = "" THEN "context canceled" ELSE @]
    /\ UNCHANGED <<mu, wpc, warg, rsnap, rStable, rExpect, offered, lastReturned>>
    /\ UNCHANGED <<bindVars, storeVars, handlerVars, lifeVars, cmd, cliVars>>

InitBind == \E c \in Clients \cup {NoClient} : InitServer("", c) /\ History(c)

\* The steps of the goroutines that call SetWA and of the handlers.
NextLock ==
    \/ \E w \in Writers, c \in Clients \cup {NoClient} : SetWA_Call(w, c)
    \/ \E w \in Writers : SetWA_Lock(w)
    \/ \E w \in Writers : SetWA_StoreTyp(w)
    \/ \E w \in Writers : SetWA_StorePtr(w)
    \/ \E w \in Writers : SetWA_Unlock(w)
    \/ \E r \in Readers : Snapshot_RLock(r)
    \/ \E r \in Readers : Snapshot_LoadTyp(r)
    \/ \E r \in Readers : Snapshot_LoadPtr(r)
    \/ \E r \in Readers : Snapshot_RUnlock(r)
    \/ \E r \in Readers : Handler_Return(r)

NextBind ==
    \/ NextLock
    \/ Start(FALSE)
    \/ \E h \in Handles : Serve(h)
    \/ Stop
    \/ StopReturns

\* The binding: goroutines call SetWA while handlers snapshot s.wa, in every
\* lifecycle state.
SpecBind == InitBind /\ [][NextBind]_vars

\* A send after its snapshot, call by call, while goroutines call SetWA.
NextSnap ==
    \/ NextLock
    \/ \E r \in Readers, conn \in BOOLEAN : Send_IsConnected(r, conn)
    \/ \E r \in Readers : Send_WithTimeout(r)
    \/ \E r \in Readers : Request_Cancel(r)
    \/ \E r \in Readers : Send_Deadline(r)
    \/ \E r \in Readers, err \in SendErrs : Send_SendText(r, err)
    \/ \E r \in Readers : Send_ResolveChatName(r)
    \/ \E r \in Readers : Send_Return(r)

SpecSnap == InitBind /\ [][NextSnap]_vars

\* What the scheduler and sync.RWMutex grant: a goroutine that can run does run
\* (the steps between Lock and Unlock, and between RLock and RUnlock, block on
\* nothing), and a goroutine waiting in Lock gets the lock if it is free again
\* and again (a pending Lock holds back new readers, and a starved waiter is
\* handed the lock). Nothing is granted to Handler_Return: a handler can stay
\* inside a collaborator call forever.
FairLock ==
    /\ \A w \in Writers :
        /\ SF_vars(SetWA_Lock(w))
        /\ WF_vars(SetWA_StoreTyp(w))
        /\ WF_vars(SetWA_StorePtr(w))
        /\ WF_vars(SetWA_Unlock(w))
    /\ \A r \in Readers :
        /\ WF_vars(Snapshot_LoadTyp(r))
        /\ WF_vars(Snapshot_LoadPtr(r))
        /\ WF_vars(Snapshot_RUnlock(r))

\* The binding while handlers may block in their collaborator calls.
SpecBindFair == InitBind /\ [][NextLock]_vars /\ FairLock

----------------------------------------------------------------------------
(* The request handled last, read back from the state *)

CallOps == { calls[i][1] : i \in 1..Len(calls) }

\* The snapshot was nil, or IsConnected answered false on it.
SnapshotUnavailable ==
    \/ IsNil(waClient)
    \/ \E i \in 1..Len(calls) : calls[i][1] = "IsConnected" /\ ~calls[i][3]

\* The checks a request can violate, as predicates of the request handled last.
MethodDisallowed ==
    CASE req.path = "/ping" -> FALSE
      [] req.path = "/send" -> req.method # "POST"
      [] req.path = "/search" -> req.method \notin {"GET", "POST"}
      [] OTHER -> req.method # "GET"

DependencyMissing == req.path = "/send" /\ SnapshotUnavailable

DecodeFails ==
    /\ req.path \in {"/send", "/search"}
    /\ req.method = "POST"
    /\ \/ req.malformed
       \/ req.path = "/search" /\ req.limit # <<>> /\ ~Atoi(req.limit).ok

\* A required parameter of a well-formed request is missing, blank or unparsable.
ParamMissing ==
    /\ ~req.malformed
    /\ CASE req.path = "/send" ->
                \/ TrimSpace(req.to) = <<>> /\ TrimSpace(req.chat_jid) = <<>>
                \/ TrimSpace(req.message) = <<>>
                \/ ~ParseUserOrJID(Recipient(req)).ok
         [] req.path = "/search" -> TrimSpace(req.query) = <<>>
         [] req.path = "/messages" -> req.chat_jid = <<>>
         [] OTHER -> FALSE

\* The collaborator call the response depends on returned an error.
PrimaryCall ==
    CASE req.path = "/send" -> "SendText"
      [] req.path = "/chats" -> "ListChats"
      [] req.path = "/messages" -> "ListMessages"
      [] req.path = "/search" -> "SearchMessages"
      [] OTHER -> "none"

CallFailed ==
    \E i \in 1..Len(calls) : calls[i][1] = PrimaryCall /\ calls[i][Len(calls[i])] # ""

\* The check the response reports, read from its status and error text.
FiredCheck ==
    CASE resp.code = 200 -> "none"
      [] resp.code = 405 -> "method"
      [] resp.code = 503 -> "dependency"
      [] resp.code = 500 -> "call"
      [] resp.code = 400 /\ resp.error[1] = "invalid JSON: " -> "decode"
      [] resp.code = 400 -> "param"
      [] OTHER -> "unknown"

CheckCode(c) ==
    CASE c = "none" -> 200
      [] c = "method" -> 405
      [] c = "dependency" -> 503
      [] c \in {"decode", "param"} -> 400
      [] c = "call" -> 500

\* The first check of `order` the request handled last violates.
RECURSIVE FirstViolated(_)
FirstViolated(order) ==
    IF order = <<>> THEN "none"
    ELSE IF \/ Head(order) = "method" /\ MethodDisallowed
            \/ Head(order) = "dependency" /\ DependencyMissing
            \/ Head(order) = "decode" /\ DecodeFails
            \/ Head(order) = "param" /\ ParamMissing
            \/ Head(order) = "call" /\ CallFailed
         THEN Head(order)
    ELSE FirstViolated(Tail(order))

Handled == req.path # ""

----------------------------------------------------------------------------
(* Claims *)

\* C1: a POST /send handled while the binding snapshot is nil, or while
\* IsConnected answers false on the snapshot, is answered 503 with ok=false,
\* whatever the body; that request calls neither SendText nor UpsertChat nor
\* UpsertMessage and leaves the Store and the sent texts as they were.
C1_SendUnavailableIs503 ==
    [][ (req'.path = "/send" /\ req'.method = "POST" /\ SnapshotUnavailable')
        => /\ resp'.code = 503
           /\ ~resp'.ok
           /\ CallOps' \cap {"SendText", "ResolveChatName", "UpsertChat", "UpsertMessage"} = {}
           /\ UNCHANGED <<chats, messages, sentMsgs>> ]_vars

\* C1 witness: a well-formed, complete POST /send was answered 503 because the
\* bound client said it is not connected.
C1_Witness ==
    /\ req.path = "/send" /\ req.method = "POST" /\ ~req.malformed
    /\ ParseUserOrJID(Recipient(req)).ok /\ TrimSpace(req.message) # <<>>
    /\ ~IsNil(waClient)
    /\ calls = << <<"IsConnected", waClient.ptr, FALSE>> >>
    /\ resp.code = 503

\* C2 as stated: the checks are applied in the order method (405), required
\* parameter (400), client dependency of send (503), decoding (400), collaborator
\* call (500), and the status is that of the first check violated in this order.
C2_OrderAsStated ==
    Handled => resp.code = CheckCode(FirstViolated(<<"method", "param", "dependency", "decode", "call">>))

\* C2 amended: the checks are applied in the order method (405), client
\* dependency of send (503), decoding (400), required parameter (400),
\* collaborator call (500); the response reports the first check violated in this
\* order, and no Store operation and no SendText is called unless the four
\* checks before the call all passed.
C2_CheckOrder ==
    Handled =>
        /\ FiredCheck = FirstViolated(<<"method", "dependency", "decode", "param", "call">>)
        /\ FiredCheck \in {"method", "dependency", "decode", "param"}
              => CallOps \subseteq {"IsConnected"}

\* C2 witness: a well-formed POST /send without recipient met an unbound client
\* and was answered 503, not 400.
C2_Witness ==
    /\ req.path = "/send" /\ req.method = "POST"
    /\ ParamMissing /\ DependencyMissing
    /\ resp.code = 503

\* C3: when SendText succeeded, the handler calls UpsertChat and then
\* UpsertMessage, and whatever the two return the response is 200 with ok=true,
\* no error and the message_id SendText returned.
C3_UpsertFailuresSwallowed ==
    \A i \in 1..Len(calls) :
        (calls[i][1] = "SendText" /\ calls[i][6] = "")
        => /\ Len(calls) = i + 3
           /\ calls[i + 2][1] = "UpsertChat"
           /\ calls[i + 3][1] = "UpsertMessage"
           /\ resp.code = 200 /\ resp.ok /\ resp.error = <<>>
           /\ resp.message_id = calls[i][5]

\* C3 witness: both upserts of a successful send failed and the answer is 200.
C3_Witness ==
    /\ req.path = "/send" /\ resp.code = 200
    /\ \E i \in 1..Len(calls) : calls[i][1] = "UpsertChat" /\ calls[i][3]
    /\ \E i \in 1..Len(calls) : calls[i][1] = "UpsertMessage" /\ calls[i][3]

\* C4 as stated: in every Store state, each message the send handler wrote has a
\* chat with the same chat identifier.
C4_MessageHasChat ==
    \A m \in Rows(messages) :
        (m.FromMe /\ m.SenderName = "me") => \E c \in Rows(chats) : c.JID = m.ChatJID

\* C4 amended: each message the send handler writes is written right after an
\* UpsertChat call of the same request for the same chat identifier, and the
\* Store holds a chat with that identifier whenever that UpsertChat call
\* succeeded (a failed chat upsert does not stop the message upsert).
C4_ChatUpsertPrecedesMessage ==
    req.path = "/send" =>
        \A i \in 1..Len(calls) :
            (calls[i][1] = "UpsertMessage" /\ ~calls[i][3])
            => /\ \E m \in Rows(messages) :
                    m.ChatJID = calls[i][2].ChatJID /\ m.MsgID = calls[i][2].MsgID
               /\ i > 1
               /\ calls[i - 1][1] = "UpsertChat"
               /\ calls[i - 1][2].JID = calls[i][2].ChatJID
               /\ ~calls[i - 1][3]
                    => \E c \in Rows(chats) : c.JID = calls[i][2].ChatJID

\* C4 witness: a send wrote its chat and then its message.
C4_Witness ==
    /\ req.path = "/send"
    /\ \E i \in 1..Len(calls) : calls[i][1] = "UpsertChat" /\ ~calls[i][3]
    /\ \E i \in 1..Len(calls) : calls[i][1] = "UpsertMessage" /\ ~calls[i][3]
    /\ \E m \in Rows(messages) : \E c \in Rows(chats) : c.JID = m.ChatJID

\* C5 as stated: when the first Start fails to bind the listener, the Server
\* is left as constructed: no http.Server handle is retained and no listener
\* is open.
C5_FailedStartLeavesCreated ==
    (nStarts = 1 /\ lastOp = [op |-> "Start", err |-> "listen"])
    => server = NoServer /\ \A h \in Handles : ~Open(h)

\* C6 as stated: once Stop was called on a started Server, no later Start
\* opens a listener again.
C6_StoppedIsTerminal ==
    [][ (stopped /\ \E fail \in BOOLEAN : Start(fail)) => lnState' = lnState ]_vars

\* C7 as stated: after any sequence of Start calls at most one listener of the
\* Server is open, and Server.server, the handle Stop shuts down, is the
\* http.Server of that listener.
C7_OneListenerAndItsHandle ==
    /\ Cardinality({ h \in Handles : Open(h) }) <= 1
    /\ ~stopped => \A h \in Handles : Open(h) => server = h

\* C8 as stated: once Stop has returned because its deadline elapsed, no
\* connection of the http.Server it shut down has a request in flight.
C8_DeadlineForceCloses ==
    (stopPc = "idle" /\ lastOp = [op |-> "Stop", err |-> "context deadline exceeded"])
    => active[stopH] = 0

\* C9: Stop on a Server on which Start was never called returns nil at once and
\* changes neither the server handle, nor the client binding, nor the sync
\* flag, nor anything else of the Server.
C9_StopUnstartedIsNoop ==
    [][ (Stop /\ nStarts = 0)
        => /\ lastOp' = [op |-> "Stop", err |-> ""]
           /\ stopPc' = "idle"
           /\ UNCHANGED <<server, wa, syncRunning, addr, lnState, inShutdown, active>> ]_vars

\* C9 witness: Stop has returned on a never-started Server that has a client
\* bound and the sync flag set.
C9_Witness ==
    /\ nStarts = 0 /\ lastOp.op = "Stop" /\ stopPc = "idle"
    /\ ~IsNil(wa) /\ syncRunning

\* C10: SetWA runs to its end in every lifecycle state and beside handlers;
\* every snapshot a handler takes is, as a whole, the option value of New or the
\* argument of a SetWA call made so far, and a snapshot taken after SetWA(c)
\* returned and before any further SetWA call equals c.
C10_SnapshotIsWhole ==
    \A r \in Readers :
        rpc[r] = "done"
        => /\ \E c \in offered : rsnap[r] = Iface(c)
           /\ rStable[r] => rsnap[r] = Iface(rExpect[r])

\* C10 witness: after Stop, SetWA replaced the binding and returned, and a
\* handler then took a snapshot that is the new client.
C10_Witness ==
    /\ stopped /\ lastOp.op = "Stop"
    /\ \E r \in Readers :
        /\ rpc[r] = "done" /\ rStable[r]
        /\ rsnap[r] = Iface("c2")
        /\ lastReturned = "c2"
    /\ offered = {"c1", "c2"}

\* C11: a handler that has gone on to its collaborator calls does not hold
\* Server.mu, and every SetWA call that was made returns, even when handlers
\* never come back from a collaborator call.
C11_NoLockAcrossCalls ==
    /\ [](\A r \in Readers : rpc[r] = "done" => r \notin mu.readers)
    /\ \A w \in Writers : (wpc[w] # "idle") ~> (wpc[w] = "idle")

\* C11 witness: a handler took its snapshot c1 and is still inside its
\* collaborator calls, and SetWA(c2) was called and returned meanwhile.
C11_Witness ==
    /\ \E r \in Readers : rpc[r] = "done" /\ rsnap[r] = Iface("c1") /\ r \notin mu.readers
    /\ \A w \in Writers : wpc[w] = "idle"
    /\ wa = Iface("c2") /\ lastReturned = "c2"

\* A step that handled a request to `path` with `method` (a request that is
\* answered exactly as the one before it changes nothing and is no step).
StepHandled(path, method) ==
    /\ req'.path = path /\ req'.method = method
    /\ <<req, waClient, resp, calls>>' # <<req, waClient, resp, calls>>

\* C12: the sync flag is false after New and changes only by SetSyncRunning(b),
\* to b; every answered GET /status reports the flag's value at that moment,
\* which is therefore the argument of the latest SetSyncRunning call, or false
\* when there was none.
C12_StatusReportsSyncFlag ==
    /\ syncRunning = FALSE
    /\ [][ /\ syncRunning' # syncRunning
              => \E b \in BOOLEAN : SetSyncRunning(b) /\ syncRunning' = b
           /\ StepHandled("/status", "GET")
              => resp'.code = 200 /\ resp'.status.sync_running = syncRunning ]_vars

\* C12 witness: a GET /status answered sync_running = true, which only a
\* SetSyncRunning(true) before it explains.
C12_Witness ==
    /\ req.path = "/status" /\ req.method = "GET"
    /\ resp.code = 200 /\ resp.status.sync_running /\ syncRunning

\* An answered GET /status is the request handled last.
StatusAnswered == req.path = "/status" /\ req.method = "GET" /\ resp.code = 200

\* C13: an answered GET /status with a nil snapshot reports wa_connected = false
\* and has not called IsConnected; with a client in the snapshot it has called
\* IsConnected once, on that client, and reports exactly the answer.
C13_StatusReportsConnected ==
    StatusAnswered =>
        IF IsNil(waClient)
        THEN ~resp.status.wa_connected /\ "IsConnected" \notin CallOps
        ELSE /\ calls[1][1] = "IsConnected" /\ calls[1][2] = waClient.ptr
             /\ resp.status.wa_connected = calls[1][3]
             /\ \A i \in 2..Len(calls) : calls[i][1] # "IsConnected"

\* C13 witness: a bound client answered IsConnected() = true and the status
\* says so.
C13_Witness ==
    /\ StatusAnswered /\ ~IsNil(waClient)
    /\ calls[1][1] = "IsConnected" /\ calls[1][3]
    /\ resp.status.wa_connected

\* C14: a GET /status is answered 200 with ok=true and no error text whatever
\* ListChats and CountMessages returned; chats_count is 0 when ListChats failed
\* and the number of chats otherwise.
C14_StatusSurvivesStoreErrors ==
    (req.path = "/status" /\ req.method = "GET")
    => /\ resp.code = 200 /\ resp.ok /\ resp.error = <<>>
       /\ \E i \in 1..Len(calls) :
            /\ calls[i][1] = "ListChats"
            /\ resp.status.chats_count = (IF calls[i][4] # "" THEN 0 ELSE Len(chats))
       /\ "CountMessages" \in CallOps

\* C14 witness: the Store holds a chat, both of the status queries failed, and
\* the answer is 200 with chats_count = 0.
C14_Witness ==
    /\ StatusAnswered /\ resp.ok
    /\ Len(chats) > 0 /\ resp.status.chats_count = 0
    /\ \E i \in 1..Len(calls) : calls[i][1] = "ListChats" /\ calls[i][4] # ""
    /\ \E i \in 1..Len(calls) : calls[i][1] = "CountMessages" /\ calls[i][2] # ""

\* C15: every request to /ping, whatever its method, the binding and the sync
\* flag, is answered 200 with exactly ok=true and pong=true, and has called
\* neither the client nor the Store.
C15_PingAlwaysPong ==
    req.path = "/ping"
    => /\ resp = [NoResp EXCEPT !.code = 200, !.ok = TRUE, !.pong = TRUE]
       /\ calls = <<>>

\* C15 witness: a PUT /ping answered pong while no client is bound and the sync
\* flag is set.
C15_Witness ==
    /\ req.path = "/ping" /\ req.method = "PUT"
    /\ resp.code = 200 /\ resp.pong
    /\ IsNil(wa) /\ syncRunning

\* C16: a request whose method its route does not allow (other than GET on
\* /status, /chats and /messages, other than POST on /send, other than GET or
\* POST on /search) is answered 405 with ok=false and has made no collaborator
\* call, IsConnected included, also when no client is bound.
C16_DisallowedMethodIs405 ==
    (Handled /\ MethodDisallowed)
    => /\ resp.code = 405 /\ ~resp.ok /\ resp.error = <<"method not allowed">>
       /\ calls = <<>>

\* C16 witness: a GET /send with a complete body while no client is bound is
\* answered 405, not 503.
C16_Witness ==
    /\ req.path = "/send" /\ req.method = "GET"
    /\ Recipient(req) # <<>> /\ TrimSpace(req.message) # <<>>
    /\ IsNil(wa)
    /\ resp.code = 405

\* The SendText calls of the request handled last.
SendTextCalls == { i \in 1..Len(calls) : calls[i][1] = "SendText" }

\* The request handled last violates none of the checks made before the
\* collaborator call.
ValidationPassed ==
    ~MethodDisallowed /\ ~DependencyMissing /\ ~DecodeFails /\ ~ParamMissing

\* C17: a POST /send that passes every check with a connected client has called
\* SendText exactly once, on the snapshotted client, for the parsed recipient
\* and with the message text as it came, and when that call succeeded the answer
\* is 200 with the message_id SendText returned; a send that fails a check has
\* not called SendText.
C17_SendTextExactlyOnce ==
    req.path = "/send"
    => IF ValidationPassed
       THEN /\ Cardinality(SendTextCalls) = 1
            /\ \A i \in SendTextCalls :
                /\ calls[i][2] = waClient.ptr
                /\ calls[i][3] = ParseUserOrJID(Recipient(req)).jid
                /\ calls[i][4] = req.message
                /\ calls[i][6] = ""
                   => resp.code = 200 /\ resp.ok /\ resp.message_id = calls[i][5]
       ELSE SendTextCalls = {}

\* C17 witness: a send whose text has leading white space went to SendText once,
\* unchanged, and the answer carries the identifier SendText returned.
C17_Witness ==
    /\ req.path = "/send" /\ ValidationPassed
    /\ req.message = <<" ", "hi">>
    /\ \E i \in SendTextCalls : calls[i][4] = <<" ", "hi">> /\ calls[i][5] = "id2"
    /\ resp.code = 200 /\ resp.message_id = "id2"

\* SendText returned an error to the request handled last.
SendTextFailed == \E i \in SendTextCalls : calls[i][6] # ""

\* C18: a send whose SendText call returned an error is answered 500 with
\* ok=false and an error text that contains SendText's error, has called
\* neither ResolveChatName nor UpsertChat nor UpsertMessage after it, and
\* leaves the Store as it was.
C18_SendErrorIs500 ==
    [][ (StepHandled("/send", "POST") /\ SendTextFailed')
        => /\ resp'.code = 500 /\ ~resp'.ok /\ resp'.message_id = ""
           /\ \A i \in SendTextCalls' :
                /\ \E k \in 1..Len(resp'.error) : resp'.error[k] = calls'[i][6]
                /\ i = Len(calls')
           /\ CallOps' \cap {"ResolveChatName", "UpsertChat", "UpsertMessage"} = {}
           /\ UNCHANGED <<chats, messages>> ]_vars

\* C18 witness: SendText timed out and the answer is 500 naming the timeout.
C18_Witness ==
    /\ req.path = "/send"
    /\ \E i \in SendTextCalls : calls[i][6] = "timeout"
    /\ resp.code = 500 /\ resp.error = <<"send failed: ", "timeout">>

\* C19: with a connected client in the snapshot, a POST /send whose body is
\* malformed, or names no non-blank recipient, or has a blank message, or has a
\* recipient that does not parse, is answered 400 with ok=false; SendText and
\* the Store are not called, and the Store is as it was.
C19_InvalidSendIs400 ==
    [][ (/\ StepHandled("/send", "POST")
         /\ ~SnapshotUnavailable'
         /\ DecodeFails' \/ ParamMissing')
        => /\ resp'.code = 400 /\ ~resp'.ok /\ resp'.message_id = ""
           /\ CallOps' = {"IsConnected"}
           /\ UNCHANGED <<chats, messages, sentMsgs>> ]_vars

\* C19 witness: a connected client, a message, and a recipient with a device
\* suffix that is no number: 400 "invalid recipient".
C19_Witness ==
    /\ req.path = "/send" /\ req.method = "POST" /\ ~req.malformed
    /\ ~SnapshotUnavailable
    /\ TrimSpace(req.message) # <<>> /\ Recipient(req) # <<>>
    /\ ~ParseUserOrJID(Recipient(req)).ok
    /\ resp.code = 400 /\ resp.error[1] = "invalid recipient: "

\* C20: a GET /messages whose chat_jid parameter is absent or empty is answered
\* 400 without a Store call; with a chat_jid it makes one Store call,
\* ListMessages, for exactly the chat identifier of the request.
C20_MessagesNeedsChat ==
    (req.path = "/messages" /\ req.method = "GET")
    => IF req.chat_jid = <<>>
       THEN /\ resp.code = 400 /\ ~resp.ok /\ resp.error = <<"chat_jid is required">>
            /\ calls = <<>>
       ELSE /\ Len(calls) = 1
            /\ calls[1][1] = "ListMessages"
            /\ calls[1][2] = req.chat_jid

\* C20 witness: the messages of a chat were asked for and the Store, queried
\* for that chat, returned one.
C20_Witness ==
    /\ req.path = "/messages" /\ req.method = "GET"
    /\ req.chat_jid = <<"5", "@", "s.whatsapp.net">>
    /\ calls[1][1] = "ListMessages" /\ calls[1][2] = <<"5", "@", "s.whatsapp.net">>
    /\ resp.code = 200 /\ Len(resp.list) = 1
    /\ resp.list[1].chat_jid = <<"5", "@", "s.whatsapp.net">>

\* C21: a GET or POST /search whose query is empty or only white space, and a
\* POST /search whose body is malformed JSON, are answered 400 with ok=false,
\* and SearchMessages (like every other collaborator) is not called.
C21_BlankSearchIs400 ==
    (/\ req.path = "/search" /\ req.method \in {"GET", "POST"}
     /\ TrimSpace(req.query) = <<>> \/ (req.method = "POST" /\ req.malformed))
    => /\ resp.code = 400 /\ ~resp.ok /\ resp.list = <<>>
       /\ resp.error = (IF req.method = "POST" /\ req.malformed
                        THEN <<"invalid JSON: ", "syntax error">>
                        ELSE <<"query is required">>)
       /\ calls = <<>>

\* C21 witness: a POST /search with a well-formed body whose query is one
\* blank is answered 400 "query is required".
C21_Witness ==
    /\ req.path = "/search" /\ req.method = "POST" /\ ~req.malformed
    /\ req.query = <<" ">>
    /\ resp.code = 400 /\ resp.error = <<"query is required">>

\* C22: when the Store call of /chats, /messages or /search returned an error,
\* the answer is 500 with ok=false, the Store's error text as the error, and no
\* list payload.
C22_StoreErrorIs500 ==
    (req.path \in {"/chats", "/messages", "/search"} /\ CallFailed)
    => /\ resp.code = 500 /\ ~resp.ok
       /\ \E i \in 1..Len(calls) :
            calls[i][1] = PrimaryCall /\ resp.error = <<calls[i][Len(calls[i])]>>
       /\ resp.list = <<>>

\* C22 witness: the Store holds a message and the search for it failed in the
\* Store: 500 "database is locked".
C22_Witness ==
    /\ req.path = "/search" /\ CallFailed
    /\ Len(messages) > 0
    /\ resp.code = 500 /\ resp.error = <<"database is locked">>

\* C23: every response of the six handlers has a boolean ok that is true exactly
\* when the status code is 200, the code is one of 200, 400, 405, 500, 503, and
\* every response that is not 200 carries a non-empty error text.
C23_EnvelopeMatchesStatus ==
    Handled
    => /\ resp.ok \in BOOLEAN
       /\ resp.code \in {200, 400, 405, 500, 503}
       /\ resp.ok <=> resp.code = 200
       /\ resp.code # 200
          => resp.error # <<>> /\ \A k \in 1..Len(resp.error) : resp.error[k] # ""

\* C23 witness: a list handler answered a Store failure with 500, ok=false and
\* the error text.
C23_Witness ==
    /\ req.path = "/chats" /\ resp.code = 500 /\ ~resp.ok
    /\ resp.error = <<"database is locked">>

----------------------------------------------------------------------------
(* The list handlers and the Store's answers *)

\* A step of the handler of `path` that answered 200.
ListAnswered(path) ==
    /\ req'.path = path
    /\ <<req, resp, calls>>' # <<req, resp, calls>>
    /\ resp'.code = 200

\* What the Store returned to the call `c` of a list handler.
StoreAnswer(c) ==
    IF c[1] = "ListChats" THEN ListChats(c[2], c[3])
    ELSE IF c[1] = "ListMessages" THEN ListMessages(c[2], c[3], c[4], c[5])
    ELSE SearchMessages(c[2], c[3], c[4])

\* C24: /chats, /messages and /search answer 200 with exactly the sequence
\* the Store returned to their one call: as many entries, in the same order,
\* each with the identifiers, names and texts of the Store's entry at that
\* place; so no entry is dropped and none is duplicated.
C24_ListsAreStoreAnswers ==
    [][\A path \in {"/chats", "/messages", "/search"} :
         ListAnswered(path) =>
            LET rows == StoreAnswer(calls'[1])
                out == resp'.list
            IN  /\ resp'.ok
                /\ Len(calls') = 1
                /\ Len(out) = Len(rows)
                /\ \A i \in 1..Len(rows) :
                     IF path = "/chats"
                     THEN /\ out[i].jid = rows[i].JID
                          /\ out[i].kind = rows[i].Kind
                          /\ out[i].name = rows[i].Name
                     ELSE /\ out[i].chat_jid = rows[i].ChatJID
                          /\ out[i].msg_id = rows[i].MsgID
                          /\ out[i].chat_name = rows[i].ChatName
                          /\ out[i].sender_jid = rows[i].SenderJID
                          /\ out[i].from_me = rows[i].FromMe
                          /\ out[i].text = rows[i].Text
                          /\ out[i].display_text = rows[i].DisplayText]_vars

\* /messages answered the two messages of a chat, one sent and one synced,
\* in the order of the Store.
C24_Witness ==
    /\ req.path = "/messages" /\ resp.code = 200
    /\ Len(resp.list) = 2 /\ Len(messages) = 2
    /\ \A i \in 1..2 : resp.list[i].msg_id = messages[i].MsgID
    /\ resp.list[1].msg_id # resp.list[2].msg_id
    /\ resp.list[1].from_me # resp.list[2].from_me

----------------------------------------------------------------------------
(* Upserts of the send handler and of the sync task on the same keys *)

\* One row for a chat identifier, one for a (chat, message) identifier pair.
UniqueKeys ==
    /\ \A i, j \in 1..Len(chats) : chats[i].JID = chats[j].JID => i = j
    /\ \A i, j \in 1..Len(messages) :
         (messages[i].ChatJID = messages[j].ChatJID /\ messages[i].MsgID = messages[j].MsgID)
         => i = j

\* No list answer names a chat or a message twice.
NoDuplicateListed ==
    /\ (req.path = "/chats" /\ resp.code = 200)
       => \A i, j \in 1..Len(resp.list) : resp.list[i].jid = resp.list[j].jid => i = j
    /\ (req.path \in {"/messages", "/search"} /\ resp.code = 200)
       => \A i, j \in 1..Len(resp.list) :
            (resp.list[i].chat_jid = resp.list[j].chat_jid
             /\ resp.list[i].msg_id = resp.list[j].msg_id) => i = j

\* A step of handleSend that got as far as SendText.
SendStep == req'.path = "/send" /\ sentMsgs' # sentMsgs

\* C25: however the upserts of the send handler and of the sync task on one
\* chat identifier, or on one (chat, message) identifier pair, are
\* interleaved, the Store keeps one chat per identifier and one message per
\* pair and no list answer names one twice; after each successful upsert the
\* row of its key is the row just written, and no other key loses its row.
C25_UpsertsAreIdempotent ==
    /\ [](UniqueKeys /\ NoDuplicateListed)
    /\ [][SendStep =>
            \A i \in 1..Len(calls') :
                /\ (calls'[i][1] = "UpsertChat" /\ ~calls'[i][3])
                   => calls'[i][2] \in Rows(chats')
                /\ (calls'[i][1] = "UpsertMessage" /\ ~calls'[i][3])
                   => MessageRow(calls'[i][2]) \in Rows(messages')]_vars
    /\ [][\A j \in SyncJIDs :
            /\ \A name \in SyncNames :
                 SyncUpsertChat(j, name)
                 => ChatRow(JIDString(j), ChatKind(j), name, SyncTime) \in Rows(chats')
            /\ \A id \in MsgIDs, text \in SyncTexts :
                 SyncUpsertMessage(j, id, text)
                 => MessageRow(SyncMessage(j, id, text)) \in Rows(messages')]_vars
    /\ [][/\ \A c \in Rows(chats) : \E d \in Rows(chats') : d.JID = c.JID
          /\ \A m \in Rows(messages) :
               \E n \in Rows(messages') : n.ChatJID = m.ChatJID /\ n.MsgID = m.MsgID]_vars

\* The send handler wrote a chat and a message, the sync task then wrote the
\* same chat and the same message: one row each, with the sync task's values.
C25_Witness ==
    /\ req.path = "/send" /\ resp.code = 200
    /\ \E i \in 1..Len(calls) :
         /\ calls[i][1] = "UpsertMessage" /\ ~calls[i][3]
         /\ \E k \in 1..Len(messages) :
              /\ messages[k].ChatJID = calls[i][2].ChatJID
              /\ messages[k].MsgID = calls[i][2].MsgID
              /\ ~messages[k].FromMe
              /\ \A l \in 1..Len(messages) :
                   (messages[l].ChatJID = messages[k].ChatJID
                    /\ messages[l].MsgID = messages[k].MsgID) => l = k
    /\ \E i \in 1..Len(calls) :
         /\ calls[i][1] = "UpsertChat" /\ ~calls[i][3]
         /\ \E k \in 1..Len(chats) :
              /\ chats[k].JID = calls[i][2].JID
              /\ chats[k].Name = <<"Bob">> /\ calls[i][2].Name = <<"Alice">>
              /\ \A l \in 1..Len(chats) : chats[l].JID = chats[k].JID => l = k

----------------------------------------------------------------------------
(* What SetSyncRunning and SetWA leave alone *)

\* C26: SetSyncRunning(b), in every state and for both arguments, sets the
\* sync flag to b and leaves the binding, the http.Server handle and the
\* listeners, the listen address and the start time as they were; SetWA(c)
\* sets the binding and leaves the sync flag as it was.
C26_SetSyncRunningFrame ==
    [][/\ \A b \in BOOLEAN :
            SetSyncRunning(b)
            => /\ syncRunning' = b
               /\ UNCHANGED <<wa, addr, startTime, server, nStarts, lnState, inShutdown,
                              active, stopPc, stopH, stopped, mu>>
       /\ \A c \in HandlerClients \cup {NoClient} :
            SetWA(c) => wa' = Iface(c) /\ UNCHANGED <<syncRunning, addr, startTime, server>>]_vars

\* SetSyncRunning(true) was called on a started Server with a bound client,
\* and all of them are still in place.
C26_Witness ==
    /\ syncRunning
    /\ ~IsNil(wa)
    /\ server # NoServer /\ lnState[server] = "serving"
    /\ addr = DefaultAddr /\ startTime \in Times

----------------------------------------------------------------------------
(* New *)

\* No listener of the Server is or was open.
NoListener == server = NoServer /\ nStarts = 0 /\ \A h \in Handles : lnState[h] = "none"

\* C27: New with a nil Store returns an error and no Server; otherwise it
\* returns a Server whose address is localhost:5555 for an empty address
\* option and the given address for any other, whose binding is the client
\* option (nil included) and whose sync flag is false. New opens no
\* listener: the Server is in the Created state until Start is called.
C27_NewContract ==
    /\ [][\A opts \in NewOptions :
            New(opts)
            => /\ NoListener'
               /\ IF opts.DB = "nil"
                  THEN /\ cmd'.rpcServer = "nil"
                       /\ lastOp' = [op |-> "New", err |-> "db is required"]
                  ELSE /\ cmd'.rpcServer = "srv"
                       /\ lastOp' = [op |-> "New", err |-> ""]
                       /\ addr' = (IF opts.Addr = "" THEN "localhost:5555" ELSE opts.Addr)
                       /\ wa' = Iface(opts.WA)
                       /\ syncRunning' = FALSE]_vars
    /\ [](lastOp.op \in {"none", "New"} => NoListener)
    /\ [](cmd.rpcServer = "nil" => lastOp.op \in {"none", "New"})

\* New was given an empty address and a client: the Server has the default
\* address and that client, and no listener.
C27_Witness ==
    /\ cmd.rpcServer = "srv" /\ lastOp = [op |-> "New", err |-> ""]
    /\ addr = "localhost:5555" /\ wa = Iface("c1") /\ ~syncRunning
    /\ NoListener

----------------------------------------------------------------------------
(* A send and the SetWA calls during it *)

ClientOps == {"IsConnected", "SendText", "ResolveChatName"}

\* The send of goroutine `r` is past its snapshot.
InFlight(r) == rpc[r] \in {"done", "WithTimeout", "SendText", "ResolveChatName", "answered"}

\* C28: the IsConnected, SendText and ResolveChatName calls of one send all
\* have the client of its snapshot as receiver, a bound and whole client,
\* whatever SetWA calls start or complete after the snapshot; the snapshot
\* does not change while the send is in flight; and the send answers 503
\* only when its snapshot is nil or IsConnected of its snapshot said no.
C28_SendUsesOneSnapshot ==
    /\ [](\A r \in Readers :
            /\ rpc[r] \in {"SendText", "ResolveChatName"} => ~IsNil(rsnap[r])
            /\ \A i \in 1..Len(rcalls[r]) :
                 LET c == rcalls[r][i]
                 IN  /\ c[1] \in ClientOps
                        => /\ c[2] = rsnap[r]
                           /\ ~IsNil(c[2])
                           /\ c[2].ptr \in Clients /\ c[2] = Iface(c[2].ptr)
                     /\ c = <<"resp", 503>>
                        => \/ IsNil(rsnap[r])
                           \/ i > 1 /\ rcalls[r][i - 1] = <<"IsConnected", rsnap[r], FALSE>>)
    /\ [][\A r \in Readers : (InFlight(r) /\ InFlight(r)') => rsnap'[r] = rsnap[r]]_vars

\* A send has called IsConnected and SendText on the client of its snapshot
\* and is about to call ResolveChatName, while SetWA(nil) has completed.
C28_Witness ==
    \E r \in Readers :
        /\ rpc[r] = "ResolveChatName"
        /\ rsnap[r] = Iface("c1")
        /\ rcalls[r] = << <<"IsConnected", Iface("c1"), TRUE>>, <<"SendText", Iface("c1"), "">> >>
        /\ wa = Iface(NoClient) /\ lastReturned = NoClient
        /\ \A w \in Writers : wpc[w] = "idle"

----------------------------------------------------------------------------
(* The sync flag and the binding in the commands *)

\* Sync has returned and the command has cleared the flag.
FlagCleared == cmd.pc \in {"exit", "in_stop", "done"}

\* C29 as stated: from the return of Sync on, no GET /status reports
\* sync_running = true.
C29_NoTrueOnceSyncReturned ==
    [][((cmd.pc = "synced" \/ FlagCleared) /\ StepHandled("/status", "GET"))
        => ~resp'.status.sync_running]_vars

\* C29: in rpc --sync and sync --rpc the sync flag becomes true only by the
\* last statement of the after-connect callback, which follows the
\* callback's binding step; the statement after Sync's return sets it false
\* whether Sync succeeded or failed; from that statement on the flag stays
\* false and no GET /status reports sync_running = true; the binding changes
\* only in the callback, to a client, and is never cleared.
C29_SyncFlagFollowsSync ==
    /\ [](syncRunning => cmd.pc \in {"syncing", "synced"})
    /\ [](FlagCleared => ~syncRunning)
    /\ [][/\ (syncRunning' /\ ~syncRunning)
              => cmd.pc = "ac_flag" /\ cmd'.pc = "syncing"
          /\ (cmd'.pc = "ac_flag" /\ cmd.pc # "ac_flag") => cmd.pc = "ac_bind"
          /\ (cmd.pc = "synced" /\ cmd'.pc # "synced")
              => ~syncRunning' /\ cmd'.pc = "exit" /\ cmd'.err = cmd.err
          /\ (FlagCleared /\ StepHandled("/status", "GET"))
              => resp'.code = 200 /\ ~resp'.status.sync_running
          /\ (wa' # wa /\ lastOp.op # "none")
              => cmd.pc = "ac_bind" /\ ~IsNil(wa')]_vars

\* Sync failed after the callback had bound the client and set the flag; the
\* command has cleared the flag, the client is still bound, and GET /status
\* reports sync_running = false.
C29_Witness ==
    /\ cmd.kind \in {"rpc --sync", "sync --rpc"}
    /\ cmd.pc = "exit" /\ cmd.err = "sync failed"
    /\ wa = Iface("c1") /\ ~syncRunning
    /\ req.path = "/status" /\ resp.code = 200 /\ ~resp.status.sync_running

\* Start returned no error: it opened a listener.
StartSucceeded == \E h \in Handles : lnState[h] # "none"

StartFailed == nStarts > 0 /\ \A h \in Handles : lnState[h] = "none"

\* C30: in rpc, rpc --sync and sync --rpc, Stop is called at most once; when
\* Start succeeded, whichever way the command leaves (EnsureAuthed failed,
\* Sync failed, Sync completed, interrupt), Stop is called and returns and
\* then the command returns, with Stop called exactly once; when Start
\* failed, or was never reached, Stop is never called.
C30_StopOnEveryExit ==
    /\ [](cmd.stops <= 1)
    /\ [](cmd.pc = "done" => cmd.stops = (IF StartSucceeded THEN 1 ELSE 0))
    /\ [](cmd.pc = "done" /\ StartSucceeded
          => lastOp.op = "Stop" /\ inShutdown[server])
    /\ [](StartFailed => cmd.stops = 0)
    /\ (cmd.pc = "exit") ~> (cmd.pc = "done")
    /\ (cmd.pc = "exit" /\ StartSucceeded) ~> (cmd.pc = "done" /\ cmd.stops = 1)

\* rpc --sync started its Server, EnsureAuthed failed, and the command has
\* returned after one Stop.
C30_Witness ==
    /\ cmd.kind = "rpc --sync" /\ cmd.pc = "done" /\ cmd.err = "not authenticated"
    /\ StartSucceeded /\ cmd.stops = 1 /\ lastOp.op = "Stop"

----------------------------------------------------------------------------
(* The rpc command without --sync *)

\* C31: in the rpc command without --sync no client is ever bound and the sync
\* flag is never set; every POST /send is answered 503, and every GET /status
\* reports sync_running = false and wa_connected = false.
C31_RpcOnlyHasNoClient ==
    cmd.kind = "rpc" =>
        /\ IsNil(wa) /\ ~syncRunning
        /\ (req.path = "/send" /\ req.method = "POST") => resp.code = 503
        /\ (req.path = "/status" /\ req.method = "GET")
             => resp.code = 200 /\ ~resp.status.sync_running /\ ~resp.status.wa_connected

\* rpc without --sync waits for the interrupt, and a well-formed POST /send
\* was answered 503 without a call to a client.
C31_Witness ==
    /\ cmd.kind = "rpc" /\ cmd.pc = "wait"
    /\ req \in CmdSends /\ ~req.malformed
    /\ resp.code = 503 /\ calls = <<>> /\ sentMsgs = <<>>

----------------------------------------------------------------------------
(* The context of the client calls of a send *)

\* The send of goroutine `r` is inside SendText or ResolveChatName.
InClientCall(r) == rpc[r] \in {"SendText", "ResolveChatName"}

\* C32: the context handed to SendText is derived from the context of the
\* request: while the send is inside SendText (or ResolveChatName) the
\* context exists, and if the request's context is cancelled, at whatever
\* point of the request, the context of the call is cancelled too; the return
\* of the handler calls the cancel function of every context it made, so no
\* context of a returned handler is left unreleased; a send that returns
\* before its client calls makes no context.
C32_SendContextFollowsRequest ==
    /\ [](\A r \in Readers :
            /\ InClientCall(r) => ctx[r].made /\ ~ctx[r].released
            /\ (InClientCall(r) /\ ctx[r].req # "") => ctx[r].err # ""
            /\ (ctx[r].made /\ rpc[r] = "idle") => ctx[r].released /\ ctx[r].err # ""
            /\ ctx[r].released => ctx[r].made)
    /\ [][\A r \in Readers :
            /\ (ctx'[r].made /\ ~ctx[r].made) => rpc[r] = "WithTimeout" /\ rpc'[r] = "SendText"
            /\ (rpc[r] = "answered" /\ rpc'[r] = "idle") => ctx'[r].released = ctx[r].made]_vars

\* The caller went away while its send was inside SendText: the context of
\* the call was cancelled, and the handler has returned and released it.
C32_Witness ==
    \E r \in Readers :
        /\ rpc[r] = "idle"
        /\ ctx[r] = [req |-> "context canceled", at |-> "SendText", made |-> TRUE,
                     err |-> "context canceled", released |-> TRUE]

----------------------------------------------------------------------------
(* Limits and time bounds of the list requests *)

\* The limit a request states: its number when that is positive, else 50.
StatedLimit(l) == IF Atoi(l).ok /\ Atoi(l).n > 0 THEN Atoi(l).n ELSE 50

\* The request handled last is a list request that is right but for its limit.
LimitAsked ==
    \/ req.path = "/chats" /\ req.method = "GET"
    \/ req.path = "/messages" /\ req.method = "GET" /\ req.chat_jid # <<>>
    \/ req.path = "/search" /\ req.method \in {"GET", "POST"} /\ ~req.malformed
       /\ TrimSpace(req.query) # <<>>

\* The limit of the Store call of the request handled last.
LimitPassed == IF req.path = "/search" THEN calls[1][4] ELSE calls[1][3]

\* The request was answered from the Store's answer: 200, or 500 on its error.
AnsweredFromStore ==
    /\ Len(calls) = 1
    /\ resp.code = (IF calls[1][Len(calls[1])] = "" THEN 200 ELSE 500)

\* C33 as stated: whatever its limit, a list request reaches the Store, with
\* the stated limit, and is answered 200 or, on a Store error, 500.
C33_BadLimitNeverRejected ==
    LimitAsked => AnsweredFromStore /\ LimitPassed = StatedLimit(req.limit)

\* The limit of a POST /search body is no number: the body does not decode.
BodyLimitUndecodable == req.path = "/search" /\ req.method = "POST" /\ ~searchBodyLimit(req).ok

\* C33: /chats, /messages and /search pass to the Store the limit of the
\* request when it is a positive number, and 50 when it is absent, zero or
\* negative, and also when a GET parameter is no number; none of these is
\* answered with an error. A POST /search body whose limit is no number does
\* not decode: it is answered 400 and the Store is not called.
C33_LimitDefaults ==
    LimitAsked =>
        IF BodyLimitUndecodable
        THEN resp.code = 400 /\ calls = <<>>
        ELSE AnsweredFromStore /\ LimitPassed = StatedLimit(req.limit)

\* GET /messages with limit=-1 was answered 200 with the message of the chat:
\* the Store was asked for 50.
C33_Witness ==
    /\ req \in QueryMessages /\ req.limit = <<"-1">>
    /\ calls = << <<"ListMessages", req.chat_jid, 50, NoTime, NoTime, "">> >>
    /\ resp.code = 200 /\ Len(resp.list) = 1

\* The bound a before or after parameter states: its instant when it is an
\* RFC 3339 text, and none otherwise.
StatedBound(b) == IF ParseRFC3339(b).ok THEN ParseRFC3339(b).t ELSE NoTime

\* C34: GET /messages with a chat is never rejected for its before or after
\* parameter: the Store is asked with the instant of each parameter that is
\* an RFC 3339 text and with no bound for each that is not, exactly as for an
\* absent one and independently of the other parameter, and the answer is
\* 200, or 500 on a Store error.
C34_BadBoundIsNoBound ==
    (req.path = "/messages" /\ req.method = "GET" /\ req.chat_jid # <<>>) =>
        /\ AnsweredFromStore
        /\ calls[1][1] = "ListMessages" /\ calls[1][2] = req.chat_jid
        /\ calls[1][4] = StatedBound(req.before)
        /\ calls[1][5] = StatedBound(req.after)
        /\ (~ParseRFC3339(req.before).ok) => calls[1][4] = NoTime
        /\ (~ParseRFC3339(req.after).ok) => calls[1][5] = NoTime

\* GET /messages with before=yesterday and a well-formed after was answered
\* 200 with the later message: the Store was asked with the after bound only.
C34_Witness ==
    /\ req \in QueryMessages
    /\ req.before = <<"yesterday">> /\ req.after = <<"2024-01-01T00:00:01Z">>
    /\ calls = << <<"ListMessages", req.chat_jid, 50, NoTime, 1, "">> >>
    /\ resp.code = 200 /\ Len(resp.list) = 1

----------------------------------------------------------------------------
(* The recipient of a send and the records of a send *)

\* The recipient a request states: its trimmed to, or when that is blank its
\* trimmed chat_jid.
StatedRecipient(r) == IF TrimSpace(r.to) # <<>> THEN TrimSpace(r.to) ELSE TrimSpace(r.chat_jid)

\* The identifiers that occur in the calls of the request handled last.
CalledJIDs ==
    { calls[i][3] : i \in { k \in 1..Len(calls) : calls[k][1] \in {"SendText", "ResolveChatName"} } }
    \cup { ParseUserOrJID(calls[i][2].JID).jid :
             i \in { k \in 1..Len(calls) : calls[k][1] = "UpsertChat" } }
    \cup { ParseUserOrJID(calls[i][2].ChatJID).jid :
             i \in { k \in 1..Len(calls) : calls[k][1] = "UpsertMessage" } }

\* C35: a well-formed POST /send that finds a connected client is handled by
\* its stated recipient alone: it is answered "to or chat_jid is required"
\* exactly when that is blank, "invalid recipient" exactly when (with a
\* message) it does not parse, and otherwise every client and Store call is
\* made for the identifier it parses to. So chat_jid alone is handled as the
\* same value in to alone, and to wins when both are given.
C35_RecipientIsToOrChatJID ==
    (req.path = "/send" /\ req.method = "POST" /\ ~req.malformed /\ ~SnapshotUnavailable) =>
        LET rcp == StatedRecipient(req)
            jid == ParseUserOrJID(rcp)
        IN  /\ (resp.error = <<"to or chat_jid is required">>) <=> (rcp = <<>>)
            /\ (resp.code = 400 /\ resp.error[1] = "invalid recipient: ")
                 <=> (rcp # <<>> /\ TrimSpace(req.message) # <<>> /\ ~jid.ok)
            /\ (resp.code = 200)
                 <=> (rcp # <<>> /\ TrimSpace(req.message) # <<>> /\ jid.ok)
            /\ CalledJIDs = (IF resp.code = 200 THEN {jid.jid} ELSE {})

\* A send that gave a blank to, and the group in chat_jid, was made to the group.
C35_Witness ==
    /\ req.path = "/send" /\ req.to = <<" ">> /\ req.chat_jid = <<"7", "@", "g.us">>
    /\ resp.code = 200
    /\ CalledJIDs = { [User |-> <<"7">>, Server |-> GroupServer] }

\* The kind of chat an identifier states.
StatedKind(j) ==
    IF j.Server = <<"g.us">> THEN "group"
    ELSE IF j.Server = <<"broadcast">> /\ j.User # <<"status">> THEN "broadcast"
    ELSE "dm"

\* C36: after a successful send the handler has called, in this order,
\* SendText, ResolveChatName, UpsertChat and UpsertMessage. The Chat has the
\* parsed recipient as identifier, its kind (group on the group server, else
\* broadcast for a broadcast list, else dm) and the name ResolveChatName
\* returned; the Message has the same chat identifier and name, the
\* identifier SendText returned, from_me true, sender name me, no sender
\* identifier, the text of the request unmodified, and the Chat's timestamp.
C36_SendRecords ==
    (req.path = "/send" /\ resp.code = 200) =>
        LET jid == ParseUserOrJID(StatedRecipient(req)).jid
            n == Len(calls)
            send == calls[n - 3]
            name == calls[n - 2]
            chat == calls[n - 1][2]
            msg == calls[n][2]
        IN  /\ n = 5
            /\ send[1] = "SendText" /\ send[3] = jid /\ send[4] = req.message
            /\ name[1] = "ResolveChatName" /\ name[3] = jid
            /\ calls[n - 1][1] = "UpsertChat" /\ calls[n][1] = "UpsertMessage"
            /\ chat = [JID |-> JIDString(jid), Kind |-> StatedKind(jid), Name |-> name[4],
                       LastMessageTS |-> chat.LastMessageTS]
            /\ msg = [ChatJID |-> JIDString(jid), ChatName |-> name[4], MsgID |-> send[5],
                      SenderJID |-> <<>>, SenderName |-> "me",
                      Timestamp |-> chat.LastMessageTS, FromMe |-> TRUE, Text |-> req.message]
            /\ chat.LastMessageTS \in {1, 2}
            /\ resp.message_id = send[5]

\* A padded text was sent to a broadcast list whose name the client does not
\* know: the Chat is a broadcast chat without a name, and the Message has the
\* padded text.
C36_Witness ==
    /\ req.path = "/send" /\ resp.code = 200
    /\ req.to = <<"9", "@", "broadcast">> /\ req.message = <<" ", "hi", " ">>
    /\ chats = << [JID |-> <<"9", "@", "broadcast">>, Kind |-> "broadcast", Name |-> <<>>,
                   LastMessageTS |-> 2] >>
    /\ Len(messages) = 1 /\ messages[1].Text = <<" ", "hi", " ">>
    /\ messages[1].MsgID = "id2" /\ messages[1].FromMe /\ messages[1].Timestamp = 2

----------------------------------------------------------------------------
(* What the handlers leave alone *)

ReadPaths == {"/ping", "/status", "/chats", "/messages", "/search"}

WriteOps == {"UpsertChat", "UpsertMessage", "SendText"}

\* A step of a handler: a request was answered.
HandlerStep == <<req, waClient, resp, calls>>' # <<req, waClient, resp, calls>>

\* C37: the handlers of /ping, /status, /chats, /messages and /search call
\* neither UpsertChat nor UpsertMessage nor SendText and leave the Store and
\* the sent texts as they were; and no handler, /send included, changes the
\* binding, the sync flag, or anything of the lifecycle (the address, the
\* start time, the http.Server handle, the listeners, the requests in
\* flight, Shutdown).
C37_HandlersFrame ==
    /\ [](req.path \in ReadPaths => CallOps \cap WriteOps = {})
    /\ [][/\ (HandlerStep /\ req'.path \in ReadPaths)
              => UNCHANGED <<chats, messages, sentMsgs>>
          /\ HandlerStep => UNCHANGED <<wa, syncRunning, lifeVars>>]_vars

\* On a listening Server with a request in flight and the sync flag set, a
\* send was stored and then GET /chats listed its chat: the binding, the flag
\* and the listener are as they were.
C37_Witness ==
    /\ req.path = "/chats" /\ resp.code = 200 /\ Len(resp.list) = 1
    /\ Len(sentMsgs) = 1 /\ Len(chats) = 1 /\ Len(messages) = 1
    /\ wa = Iface("c1") /\ syncRunning
    /\ server = 1 /\ lnState[1] = "serving" /\ active[1] = 1 /\ stopPc = "idle"

----------------------------------------------------------------------------
(* parseTime *)

\* The layout a trimmed text has, by the shape of its tokens.
DateShaped(x) == x \in DateTexts
ClockShaped(x) == x \in ClockTexts
LayoutOf(b) ==
    IF Len(b) = 1 /\ DateShaped(b[1]) THEN "date"
    ELSE IF /\ Len(b) >= 3 /\ DateShaped(b[1]) /\ ClockShaped(b[Len(b)])
            /\ \A i \in 2..(Len(b) - 1) : b[i] = " " THEN "datetime"
    ELSE IF Len(b) = 4 /\ DateShaped(b[1]) /\ b[2] = "T" /\ ClockShaped(b[3])
            /\ b[4] \in {"Z", "+02:00", "-05:00"} THEN "rfc3339"
    ELSE "none"

\* Every date and clock of the text exists.
Exists(b) ==
    \A i \in 1..Len(b) : b[i] \notin {"2026-02-30", "25:00:00"}

\* C38: parseTime returns an error, and the zero time, for an input that is
\* empty or white space only and for one that has none of the three layouts;
\* an input of one of the layouts whose date and clock exist is accepted,
\* white space around it ignored; every accepted input gives a time in UTC,
\* a date alone midnight of that date, and a date and clock that date with
\* exactly that hour, minute and second.
C38_ParseTime ==
    parsed.called =>
        LET b == TrimSpace(parsed.input)
            t == parsed.t
        IN  /\ (b = <<>>) => parsed.err = "time is required"
            /\ (LayoutOf(b) = "none") => parsed.err # ""
            /\ (LayoutOf(b) # "none" /\ Exists(b)) => parsed.err = ""
            /\ (parsed.err # "") => t = ZeroTime
            /\ (parsed.err = "") =>
                  /\ t.loc = "UTC"
                  /\ LayoutOf(b) = "date"
                       => DateOf(t)[1] = b[1] /\ ClockOf(t) = <<0, 0, 0>>
                  /\ LayoutOf(b) = "datetime"
                       => /\ DateOf(t)[1] = b[1]
                          /\ \E c \in Clocks :
                                c[1] = b[Len(b)] /\ ClockOf(t) = <<c[2], c[3], c[4]>>

\* A padded "2026-02-07 20:00:01" was accepted: 7 February 2026, 20:00:01 UTC.
C38_Witness ==
    /\ parsed.called /\ parsed.err = ""
    /\ parsed.input = <<" ", "2026-02-07", " ", "20:00:01", " ">>
    /\ parsed.t.loc = "UTC"
    /\ DateOf(parsed.t)[1] = "2026-02-07"
    /\ ClockOf(parsed.t) = <<20, 0, 1>>

============================================================================
